---- MODULE Spec2Model ----
(***************************************************************************)
(* Playback / playlist state machine of the media-library client.         *)
(*                                                                         *)
(* The model follows the App component that carries the loop mode, the     *)
(* skip handlers and the single media element (the TSX text embedded in    *)
(* src/DEPLOY.md from line 158 on).  React state is one variable per       *)
(* useState cell; the <video> element is the media* variables.  Handlers   *)
(* run one at a time; the "media sync" effect runs after the render that   *)
(* follows a handler and before the next event is handled.                 *)
(***************************************************************************)
EXTENDS Integers, Sequences, FiniteSets, TLC

\* ---------------------------------------------------------------- bounds
MaxLen == 2            \* longest playlist drawn freely in Init
MaxTime == 4           \* duration, in seconds, of every media resource
MaxShareIds == 2       \* share ids generateShareId hands out in one run
MaxPlaylists == 3      \* longest private list an unshare may still append to
MaxNewIds == 1         \* playlists created or imported in one run
MaxClock == 4          \* requests the server function answers in one run
MaxVersions == 3       \* versions of the app that are ever deployed

\* ------------------------------------------------------ program constants
RestartThreshold == 3  \* handleSkipPrevious: currentTime > 3

NULL == "null"
NoShareId == 0                                                  \* shareId === undefined
NoPlaylist ==                                                   \* currentPlaylist === null
    [id |-> NULL, items |-> <<>>, shared |-> FALSE, shareId |-> NoShareId]
NoItem == [id |-> NULL, path |-> <<>>]                          \* selected === null
NoUrl == <<>>                                                   \* the empty string ''
NoVersion == NULL                                               \* currentVersion === null

\* the version strings of version.json
VersionNames == << "v1", "v2", "v3", "v4" >>
Versions == {VersionNames[i] : i \in 1..MaxVersions}
FetchFailed == "failed"                    \* !response.ok, or fetch rejects

\* the characters paths are written in, in collation order
CollationOrder == << " ", "/", "0", "1", "2", "%", "a", "b" >>
Rank(ch) == CHOOSE i \in 1..Len(CollationOrder) : CollationOrder[i] = ch

VARIABLES
    MEDIA_BASE_URL,    \* build-time setting, '' when not configured
    items,             \* catalog, in catalog.json order
    playlists,         \* private playlists
    selectedId,
    currentPlaylist,
    playlistIndex,
    loopMode,
    isPlaying,
    playbackPosition,
    playbackDuration,
    shouldAutoPlay,
    mediaSrc,          \* <video>.src (NoUrl when the attribute is absent)
    mediaCurrentTime,  \* <video>.currentTime
    mediaPaused,       \* <video>.paused
    mediaReady,        \* metadata of the current source has been loaded
    effectDeps,        \* [selectedMediaUrl, shouldAutoPlay] at the last run of the sync effect
    sharedPlaylists,   \* the shared playlists as last fetched from the server
    inMemoryStorage,   \* the server's store of shared playlists
    shareIdsIssued,    \* how many ids generateShareId has produced
    assignedShareId,   \* history: the shareId each playlist got at its first share
    pending,           \* the handler call that is awaiting the server
    editingPlaylist,   \* the playlist open in the editor, NoPlaylist when closed
    idsIssued,         \* how many playlist ids the create and import handlers have made
    draggedItemIndex,  \* the row being dragged in the editor, -1 when none
    importData,        \* the text in the import panel
    supabase,          \* the server function has SUPABASE_URL and SUPABASE_ANON_KEY
    shared_playlists,  \* the rows of the Supabase table
    clock,             \* the server's time, one tick per request
    lastWrite,         \* history: per id, the last successful POST or DELETE and its time
    versionJson,       \* the version in the deployed /version.json
    storedVersion,     \* localStorage 'drjoe-version'
    currentVersion,
    currentVersionRef, \* currentVersionRef.current
    updateAvailable,   \* the version the update notification shows, NULL when none
    versionChecks,     \* the responses of the version checks that are awaiting their fetch
    favorites,         \* the favorite item ids, in the order of the Set
    localFavorites,    \* localStorage 'drjoe-favorites'
    localPlaylists,    \* localStorage 'drjoe-playlists'
    sharedPlaylistsLoaded,
    hasEnsuredMorningPlaylist,
    ensuringMorningRef,    \* ensuringMorningRef.current
    ensureDeps,        \* the dependencies at the last run of the morning playlist effect
    dismissed,         \* history: the versions whose notification the user answered,
                       \* the latest answer last
    last               \* the handler that produced this state, and the branch it took

vars == << MEDIA_BASE_URL, items, playlists, selectedId, currentPlaylist,
           playlistIndex, loopMode, isPlaying, playbackPosition,
           playbackDuration, shouldAutoPlay, mediaSrc, mediaCurrentTime,
           mediaPaused, mediaReady, effectDeps, sharedPlaylists, inMemoryStorage,
           shareIdsIssued, assignedShareId, pending, editingPlaylist, idsIssued,
           draggedItemIndex, importData, supabase, shared_playlists, clock, lastWrite,
           versionJson, storedVersion, currentVersion, currentVersionRef,
           updateAvailable, versionChecks, favorites, localFavorites, localPlaylists,
           sharedPlaylistsLoaded, hasEnsuredMorningPlaylist, ensuringMorningRef,
           ensureDeps, dismissed, last >>

\* ------------------------------------------------------------- the catalog
\* catalog.json: A "a/1", B "a/2", C "b/1", stored out of path order
Catalog ==
    << [id |-> "B", path |-> <<"a", "/", "2">>],
       [id |-> "C", path |-> <<"b", "/", "1">>],
       [id |-> "A", path |-> <<"a", "/", "1">>] >>

DanglingId == "X"      \* an item id no catalog entry carries
PlaylistItemIds == {"A", "B", DanglingId}

\* the entries playlists are drawn from: every id without the loop flag, one with it
PlaylistItem ==
    {[itemId |-> i, loop |-> FALSE] : i \in PlaylistItemIds}
        \cup {[itemId |-> "B", loop |-> TRUE]}

RECURSIVE SeqsUpTo(_, _)
SeqsUpTo(S, n) ==
    IF n = 0 THEN {<<>>}
    ELSE LET shorter == SeqsUpTo(S, n - 1)
         IN  shorter \cup {Append(q, e) : q \in {r \in shorter : Len(r) = n - 1}, e \in S}

PlaylistContents == SeqsUpTo(PlaylistItem, MaxLen)

\* ------------------------------------------------------------ pure helpers
\* Array.prototype.findIndex, 1-based; 0 when absent
RECURSIVE FindFrom(_, _, _)
FindFrom(seq, id, i) ==
    IF i > Len(seq) THEN 0
    ELSE IF seq[i].id = id THEN i
    ELSE FindFrom(seq, id, i + 1)

FindIndex(seq, id) == FindFrom(seq, id, 1)

\* a.localeCompare(b) < 0 on two character sequences
RECURSIVE PathLess(_, _)
PathLess(a, b) ==
    IF Len(b) = 0 THEN FALSE
    ELSE IF Len(a) = 0 THEN TRUE
    ELSE IF Rank(Head(a)) < Rank(Head(b)) THEN TRUE
    ELSE IF Rank(Head(a)) > Rank(Head(b)) THEN FALSE
    ELSE PathLess(Tail(a), Tail(b))

\* insert x into the sorted sequence s, after the entries that do not follow it
RECURSIVE InsertSorted(_, _)
InsertSorted(s, x) ==
    IF Len(s) = 0 THEN <<x>>
    ELSE IF PathLess(x.path, Head(s).path) THEN <<x>> \o s
    ELSE <<Head(s)>> \o InsertSorted(Tail(s), x)

RECURSIVE SortByPath(_)
SortByPath(s) ==
    IF Len(s) = 0 THEN <<>>
    ELSE InsertSorted(SortByPath(SubSeq(s, 1, Len(s) - 1)), s[Len(s)])

\* encodeURIComponent on one character
EncodeUnit(c) ==
    IF c = " " THEN <<"%", "2", "0">>
    ELSE IF c = "/" THEN <<"%", "2", "F">>
    ELSE IF c = "%" THEN <<"%", "2", "5">>
    ELSE <<c>>

RECURSIVE EncodePath(_)
EncodePath(p) ==
    IF Len(p) = 0 THEN <<>>
    ELSE (IF Head(p) = "/" THEN <<"/">> ELSE EncodeUnit(Head(p))) \o EncodePath(Tail(p))

\* MEDIA_BASE_URL.replace(/\/+$/, '')
RECURSIVE StripTrailingSlashes(_)
StripTrailingSlashes(u) ==
    IF Len(u) > 0 /\ u[Len(u)] = "/" THEN StripTrailingSlashes(SubSeq(u, 1, Len(u) - 1))
    ELSE u

buildMediaUrl(relPath) ==
    IF MEDIA_BASE_URL = NoUrl THEN NoUrl
    ELSE StripTrailingSlashes(MEDIA_BASE_URL) \o <<"/">> \o EncodePath(relPath)

\* ------------------------------------------------------------ derived state
\* useMemo: the sort is recomputed only when items changes
SortedCatalog == SortByPath(Catalog)

\* the library left in catalog.json order, the sort dropped
orderedItems_CatalogOrder == items

orderedItems == IF items = Catalog THEN SortedCatalog ELSE SortByPath(items)

selected ==
    LET i == FindIndex(orderedItems, selectedId)
    IN  IF i = 0 THEN NoItem ELSE orderedItems[i]

\* 0-based index of the selection in library order, -1 when nothing is selected
libraryIndex ==
    IF selected = NoItem THEN -1 ELSE FindIndex(orderedItems, selected.id) - 1

\* selectedMediaUrl without the test of MEDIA_BASE_URL, building a relative URL
selectedMediaUrl_NoBaseCheck ==
    IF selected = NoItem THEN NoUrl
    ELSE StripTrailingSlashes(MEDIA_BASE_URL) \o <<"/">> \o EncodePath(selected.path)

selectedMediaUrl ==
    IF selected = NoItem \/ MEDIA_BASE_URL = NoUrl THEN NoUrl ELSE buildMediaUrl(selected.path)

\* items.find((item) => item.id === id) succeeds
InCatalog(id) == FindIndex(items, id) # 0

\* currentPlaylist.items[i] for a 0-based i
EntryAt(p, i) == p.items[i + 1]

\* ------------------------------------------------------ the session record
\* the four cells the queue transitions write together
CurSess ==
    [selectedId |-> selectedId, currentPlaylist |-> currentPlaylist,
     playlistIndex |-> playlistIndex, shouldAutoPlay |-> shouldAutoPlay]

SetSess(s) ==
    /\ selectedId' = s.selectedId
    /\ currentPlaylist' = s.currentPlaylist
    /\ playlistIndex' = s.playlistIndex
    /\ shouldAutoPlay' = s.shouldAutoPlay

\* what a handler leaves in `last`: its name, its argument, the queue, position,
\* selection and restart condition it started from, and whether it called media.play()
Did(op, arg) ==
    [op |-> op, arg |-> arg, queue |-> currentPlaylist.id, index |-> playlistIndex,
     late |-> (op = "handleSkipPrevious" /\ mediaCurrentTime > RestartThreshold),
     sel |-> selectedId, play |-> FALSE]

\* what a media event or an effect leaves in `last`
Env(op) ==
    [op |-> op, arg |-> NULL, queue |-> NULL, index |-> 0, late |-> FALSE,
     sel |-> selectedId, play |-> FALSE]

\* ------------------------------------------------------- the media element
CurMedia ==
    [src |-> mediaSrc, t |-> mediaCurrentTime, paused |-> mediaPaused,
     ready |-> mediaReady, isPlaying |-> isPlaying]

SetMedia(m) ==
    /\ mediaSrc' = m.src
    /\ mediaCurrentTime' = m.t
    /\ mediaPaused' = m.paused
    /\ mediaReady' = m.ready
    /\ isPlaying' = m.isPlaying

\* media.play(): rejected without a source or when the browser refuses (ok = FALSE);
\* otherwise un-pauses, restarts an ended resource, and the 'play' event runs handlePlay
Play(m, ok) ==
    IF m.src = NoUrl \/ ~ok THEN m
    ELSE [m EXCEPT !.paused = FALSE,
                   !.isPlaying = IF m.paused THEN TRUE ELSE @,
                   !.t = IF m.ready /\ m.t = MaxTime THEN 0 ELSE @]

\* media.pause(): the 'pause' event runs handlePause
Pause(m) ==
    IF m.paused THEN m ELSE [m EXCEPT !.paused = TRUE, !.isPlaying = FALSE]

\* media.src = url; media.load(): the element is reset and paused, no 'pause' event
Load(m, url) ==
    [m EXCEPT !.src = url, !.t = 0, !.paused = TRUE, !.ready = FALSE]

\* no effect is waiting: handlers and media events run only between renders
Idle == effectDeps = <<selectedMediaUrl, shouldAutoPlay>>

\* ---------------------------------------------------------------- handlers
\* a goToPlaylistIndex that writes the position before it looks up the item
goToPlaylistIndex_MovesFirst(targetIndex) ==
    IF currentPlaylist = NoPlaylist THEN CurSess
    ELSE IF targetIndex < 0 \/ targetIndex >= Len(currentPlaylist.items) THEN CurSess
    ELSE IF ~InCatalog(EntryAt(currentPlaylist, targetIndex).itemId)
    THEN [CurSess EXCEPT !.playlistIndex = targetIndex]
    ELSE [CurSess EXCEPT !.playlistIndex = targetIndex,
                         !.selectedId = EntryAt(currentPlaylist, targetIndex).itemId,
                         !.shouldAutoPlay = TRUE]

goToPlaylistIndex(targetIndex) ==
    IF currentPlaylist = NoPlaylist THEN CurSess
    ELSE IF targetIndex < 0 \/ targetIndex >= Len(currentPlaylist.items) THEN CurSess
    ELSE IF ~InCatalog(EntryAt(currentPlaylist, targetIndex).itemId) THEN CurSess
    ELSE [CurSess EXCEPT !.playlistIndex = targetIndex,
                         !.selectedId = EntryAt(currentPlaylist, targetIndex).itemId,
                         !.shouldAutoPlay = TRUE]

\* goToLibraryIndex with its lower bound off by one: index 0 is refused
goToLibraryIndex_RefusesFirst(targetIndex) ==
    IF targetIndex <= 0 \/ targetIndex >= Len(orderedItems) THEN CurSess
    ELSE [selectedId |-> orderedItems[targetIndex + 1].id, currentPlaylist |-> NoPlaylist,
          playlistIndex |-> 0, shouldAutoPlay |-> TRUE]

goToLibraryIndex(targetIndex) ==
    IF targetIndex < 0 \/ targetIndex >= Len(orderedItems) THEN CurSess
    ELSE [selectedId |-> orderedItems[targetIndex + 1].id, currentPlaylist |-> NoPlaylist,
          playlistIndex |-> 0, shouldAutoPlay |-> TRUE]

\* handlePlayPlaylist without its length check
handlePlayPlaylistSess_NoEmptyCheck(playlist) ==
    [selectedId |-> IF Len(playlist.items) > 0 /\ InCatalog(playlist.items[1].itemId)
                    THEN playlist.items[1].itemId ELSE selectedId,
     currentPlaylist |-> playlist, playlistIndex |-> 0, shouldAutoPlay |-> TRUE]

handlePlayPlaylistSess(playlist) ==
    IF Len(playlist.items) = 0 THEN CurSess
    ELSE [selectedId |-> IF InCatalog(playlist.items[1].itemId)
                         THEN playlist.items[1].itemId ELSE selectedId,
          currentPlaylist |-> playlist, playlistIndex |-> 0, shouldAutoPlay |-> TRUE]

\* handleSelectItem that only writes the selection
handleSelectItemSess_KeepsQueue(id) ==
    [CurSess EXCEPT !.selectedId = id]

handleSelectItemSess(id) ==
    [selectedId |-> id, currentPlaylist |-> NoPlaylist, playlistIndex |-> 0,
     shouldAutoPlay |-> TRUE]

\* handleSkipNext without the wrap of loop mode 'all'
handleSkipNextSess_NoWrap ==
    IF selected = NoItem THEN CurSess
    ELSE IF currentPlaylist # NoPlaylist
    THEN IF playlistIndex < Len(currentPlaylist.items) - 1
         THEN goToPlaylistIndex(playlistIndex + 1)
         ELSE CurSess
    ELSE IF libraryIndex < Len(orderedItems) - 1
         THEN goToLibraryIndex(libraryIndex + 1)
         ELSE CurSess

handleSkipNextSess ==
    IF selected = NoItem THEN CurSess
    ELSE IF currentPlaylist # NoPlaylist
    THEN IF playlistIndex < Len(currentPlaylist.items) - 1
         THEN goToPlaylistIndex(playlistIndex + 1)
         ELSE IF loopMode = "all" THEN goToPlaylistIndex(0) ELSE CurSess
    ELSE IF libraryIndex < Len(orderedItems) - 1
         THEN goToLibraryIndex(libraryIndex + 1)
         ELSE IF loopMode = "all" THEN goToLibraryIndex(0) ELSE CurSess

\* the restart test off by one: restarts from 3 s on
SkipPreviousRestarts_AtThreshold == selected # NoItem /\ mediaCurrentTime >= RestartThreshold

\* the restart branch of handleSkipPrevious is taken
SkipPreviousRestarts == selected # NoItem /\ mediaCurrentTime > RestartThreshold

handleSkipPreviousSess ==
    IF selected = NoItem \/ SkipPreviousRestarts THEN CurSess
    ELSE IF currentPlaylist # NoPlaylist
    THEN IF playlistIndex > 0
         THEN goToPlaylistIndex(playlistIndex - 1)
         ELSE IF loopMode = "all"
              THEN goToPlaylistIndex(Len(currentPlaylist.items) - 1) ELSE CurSess
    ELSE IF libraryIndex > 0
         THEN goToLibraryIndex(libraryIndex - 1)
         ELSE IF loopMode = "all" THEN goToLibraryIndex(Len(orderedItems) - 1) ELSE CurSess

\* handleEnded without the 'repeat one' branch
handleEndedSess_NoRepeatOne ==
    IF currentPlaylist # NoPlaylist
    THEN IF playlistIndex + 1 < Len(currentPlaylist.items)
         THEN [CurSess EXCEPT !.playlistIndex = playlistIndex + 1,
                              !.selectedId = EntryAt(currentPlaylist, playlistIndex + 1).itemId,
                              !.shouldAutoPlay = TRUE]
         ELSE IF loopMode = "all" /\ Len(currentPlaylist.items) > 0
         THEN [CurSess EXCEPT !.playlistIndex = 0,
                              !.selectedId = EntryAt(currentPlaylist, 0).itemId,
                              !.shouldAutoPlay = TRUE]
         ELSE [CurSess EXCEPT !.currentPlaylist = NoPlaylist, !.playlistIndex = 0]
    ELSE IF selected = NoItem THEN CurSess
    ELSE IF libraryIndex >= 0 /\ libraryIndex < Len(orderedItems) - 1
         THEN goToLibraryIndex(libraryIndex + 1)
         ELSE IF loopMode = "all" /\ Len(orderedItems) > 0 THEN goToLibraryIndex(0)
         ELSE CurSess

\* the session handleEnded leaves
handleEndedSess ==
    IF loopMode = "one" THEN CurSess
    ELSE IF currentPlaylist # NoPlaylist
    THEN IF playlistIndex + 1 < Len(currentPlaylist.items)
         THEN [CurSess EXCEPT !.playlistIndex = playlistIndex + 1,
                              !.selectedId = EntryAt(currentPlaylist, playlistIndex + 1).itemId,
                              !.shouldAutoPlay = TRUE]
         ELSE IF loopMode = "all" /\ Len(currentPlaylist.items) > 0
         THEN [CurSess EXCEPT !.playlistIndex = 0,
                              !.selectedId = EntryAt(currentPlaylist, 0).itemId,
                              !.shouldAutoPlay = TRUE]
         ELSE [CurSess EXCEPT !.currentPlaylist = NoPlaylist, !.playlistIndex = 0]
    ELSE IF selected = NoItem THEN CurSess
    ELSE IF libraryIndex >= 0 /\ libraryIndex < Len(orderedItems) - 1
         THEN goToLibraryIndex(libraryIndex + 1)
         ELSE IF loopMode = "all" /\ Len(orderedItems) > 0 THEN goToLibraryIndex(0)
         ELSE CurSess

\* cycleLoopMode that never reaches 'one'
cycleLoopModeOf_TwoState(prev) ==
    IF prev = "none" THEN "all" ELSE "none"

cycleLoopModeOf(prev) ==
    IF prev = "none" THEN "all" ELSE IF prev = "all" THEN "one" ELSE "none"

\* the seek slider without its max attribute
RangeInputValue_NoMax(raw) ==
    IF raw < 0 THEN 0 ELSE raw

\* <input type="range" min={0} max={playbackDuration || 0}>: the value the slider
\* reports for a position `raw` the pointer asks for
RangeInputValue(raw) ==
    IF raw < 0 THEN 0 ELSE IF raw > playbackDuration THEN playbackDuration ELSE raw

\* media.currentTime = value: clamped to the resource once its metadata is known
SeekTo(m, value) ==
    [m EXCEPT !.t = IF ~m.ready THEN value
                    ELSE IF value < 0 THEN 0
                    ELSE IF value > MaxTime THEN MaxTime ELSE value]


\* ------------------------------------------------------- shared playlists
\* `playlist-${Date.now()}` / `imported-${Date.now()}`: one id per call
NewIds == << "n1", "n2", "n3" >>
newPlaylistId == NewIds[idsIssued + 1]

MORNING_PLAYLIST_ID == "morning-breathwork"
MORNING_COLLECTION == "a"       \* the collection is the first segment of the path

PlaylistIds == {"p1", "p2", MORNING_PLAYLIST_ID} \cup {NewIds[i] : i \in 1..Len(NewIds)}

\* no handleSharePlaylist call is awaiting the server
NoRequest ==
    [kind |-> "none", playlist |-> NoPlaylist, closure |-> <<>>, stage |-> "none",
     ok |-> FALSE]

\* generateShareId(): a value no earlier call returned
generateShareId == shareIdsIssued + 1

\* writePlaylist, in-memory store: replace the entry with the same id, or push
writePlaylist(store, playlist) ==
    IF \E i \in 1..Len(store) : store[i].id = playlist.id
    THEN [i \in 1..Len(store) |-> IF store[i].id = playlist.id THEN playlist ELSE store[i]]
    ELSE Append(store, playlist)

\* deletePlaylist, in-memory store
deletePlaylist(store, playlistId) == SelectSeq(store, LAMBDA q : q.id # playlistId)

\* GET /api/shared-playlists: of every stored playlist the response carries
\* id, name, items and shareId, with shared: true; other properties are left out
readPlaylists(store) ==
    [i \in 1..Len(store) |->
        [f \in DOMAIN store[i] \cap {"id", "name", "items", "shared", "shareId"} |->
            IF f = "shared" THEN TRUE ELSE store[i][f]]]

\* the playlist handleSharePlaylist sends when it shares
sharedPlaylistOf(playlist) ==
    [playlist EXCEPT !.shared = TRUE,
                     !.shareId = IF playlist.shareId # NoShareId THEN playlist.shareId
                                 ELSE generateShareId]

\* the playlist handleSharePlaylist puts back into the private list when it unshares
unsharedPlaylistOf(playlist) ==
    [playlist EXCEPT !.shared = FALSE, !.shareId = NoShareId]

\* no request for this id has succeeded yet
NoWrite == [at |-> 0, playlist |-> NoPlaylist, request |-> NoPlaylist]

\* ------------------------------------------------------ the server function
\* the playlists the clients POST: with the shareId a client gave them in an
\* earlier session, or without a shareId
PayloadItems == {<<>>, << [itemId |-> "C", loop |-> FALSE] >>}
sharedEarlier(id) == MaxShareIds + (IF id = "p1" THEN 1 ELSE 2)

ServerPayloads ==
    {[id |-> id, name |-> IF id = "p1" THEN "Morning" ELSE "Evening", items |-> c,
      shared |-> sh, shareId |-> IF sh THEN sharedEarlier(id) ELSE NoShareId,
      coverEmoji |-> IF id = "p1" THEN "sunrise" ELSE "moon"] :
        id \in {"p1", "p2"}, c \in PayloadItems, sh \in BOOLEAN}

\* a POST that gives every playlist a new shareId
postedPlaylistOf_NewShareId(playlist) ==
    [playlist EXCEPT !.shared = TRUE, !.shareId = generateShareId]

\* POST: the playlist is marked shared and given a shareId if it has none
postedPlaylistOf(playlist) ==
    [playlist EXCEPT !.shared = TRUE,
                     !.shareId = IF @ = NoShareId THEN generateShareId ELSE @]

\* supabase.from('shared_playlists').upsert({id, name, items, share_id, updated_at},
\* {onConflict: 'id'}): created_at is set by the table's DEFAULT NOW() on insert
upsert(table, playlist, now) ==
    IF \E r \in table : r.id = playlist.id
    THEN {IF r.id = playlist.id
          THEN [r EXCEPT !.name = playlist.name, !.items = playlist.items,
                         !.share_id = playlist.shareId, !.updated_at = now]
          ELSE r : r \in table}
    ELSE table \cup {[id |-> playlist.id, name |-> playlist.name,
                      items |-> playlist.items, share_id |-> playlist.shareId,
                      created_at |-> now, updated_at |-> now]}

\* supabase.from('shared_playlists').delete().eq('id', playlistId)
deleteRows(table, playlistId) == {r \in table : r.id # playlistId}

\* .select('*').order('created_at', { ascending: false })
RECURSIVE OrderByCreatedDesc(_)
OrderByCreatedDesc(rows) ==
    IF rows = {} THEN <<>>
    ELSE LET newest == CHOOSE r \in rows : \A q \in rows : q.created_at <= r.created_at
         IN  << newest >> \o OrderByCreatedDesc(rows \ {newest})

\* GET /api/shared-playlists: the body of the response when the read succeeds
GETsharedPlaylists ==
    IF supabase
    THEN LET data == OrderByCreatedDesc(shared_playlists)
         IN  [i \in 1..Len(data) |->
                 [id |-> data[i].id, name |-> data[i].name, items |-> data[i].items,
                  shared |-> TRUE, shareId |-> data[i].share_id]]
    ELSE readPlaylists(inMemoryStorage)

\* ------------------------------------------------------------ import of text
UNDEFINED == "undefined"                                        \* a property that is absent

\* JSON values as the import handler looks at them: typeof, the string itself,
\* and the itemId / loop properties of an object
JStr(s) == [type |-> "string", str |-> s, itemId |-> UNDEFINED, loop |-> UNDEFINED]
JNum == [type |-> "number", str |-> UNDEFINED, itemId |-> UNDEFINED, loop |-> UNDEFINED]
JNull == [type |-> "null", str |-> UNDEFINED, itemId |-> UNDEFINED, loop |-> UNDEFINED]
JAbsent == [type |-> "undefined", str |-> UNDEFINED, itemId |-> UNDEFINED, loop |-> UNDEFINED]
JObj(itemId, loop) == [type |-> "object", str |-> UNDEFINED, itemId |-> itemId, loop |-> loop]
JArr(elems) == [type |-> "array", elems |-> elems]
JNoArr(type) == [type |-> type, elems |-> <<>>]

\* what JSON.parse makes of a text: it throws (ok = FALSE), or returns null or
\* an object with the properties name and items
ParseError == [ok |-> FALSE, type |-> "none", name |-> JAbsent, items |-> JNoArr("undefined")]
ParsedNull == [ok |-> TRUE, type |-> "null", name |-> JAbsent, items |-> JNoArr("undefined")]
ParsedObj(nameValue, itemsValue) ==
    [ok |-> TRUE, type |-> "object", name |-> nameValue, items |-> itemsValue]

\* the texts pasted into the import panel, each with its JSON.parse result
ImportSamples ==
    << [text |-> "", data |-> ParseError],
       [text |-> "not json", data |-> ParseError],
       [text |-> "null", data |-> ParsedNull],
       [text |-> "{\"items\":[\"A\"]}",
        data |-> ParsedObj(JAbsent, JArr(<< JStr("A") >>))],
       [text |-> "{\"name\":\"n\"}",
        data |-> ParsedObj(JStr("n"), JNoArr("undefined"))],
       [text |-> "{\"name\":\"n\",\"items\":\"A\"}",
        data |-> ParsedObj(JStr("n"), JNoArr("string"))],
       [text |-> "{\"name\":\"n\",\"items\":[]}",
        data |-> ParsedObj(JStr("n"), JArr(<< >>))],
       [text |-> "{\"name\":\"n\",\"items\":[\"A\",\"X\"]}",
        data |-> ParsedObj(JStr("n"), JArr(<< JStr("A"), JStr(DanglingId) >>))],
       [text |-> "{\"name\":\"n\",\"items\":[{\"itemId\":\"B\",\"loop\":true},\"A\"]}",
        data |-> ParsedObj(JStr("n"), JArr(<< JObj("B", "true"), JStr("A") >>))],
       [text |-> "{\"name\":\"n\",\"items\":[5]}",
        data |-> ParsedObj(JStr("n"), JArr(<< JNum >>))],
       [text |-> "{\"name\":\"n\",\"items\":[null]}",
        data |-> ParsedObj(JStr("n"), JArr(<< JNull >>))],
       [text |-> "{\"name\":\"n\",\"items\":[{}]}",
        data |-> ParsedObj(JStr("n"), JArr(<< JObj(UNDEFINED, UNDEFINED) >>))],
       [text |-> "{\"name\":7,\"items\":[\"A\"]}",
        data |-> ParsedObj(JNum, JArr(<< JStr("A") >>))] >>

ImportTexts == {ImportSamples[i].text : i \in 1..Len(ImportSamples)}

JSONparse(text) ==
    ImportSamples[CHOOSE i \in 1..Len(ImportSamples) : ImportSamples[i].text = text].data

\* `!v` is false: strings other than '', the (non-zero) sample numbers, objects
Truthy(v) ==
    CASE v.type = "string" -> v.str # ""
      [] v.type \in {"null", "undefined"} -> FALSE
      [] OTHER -> TRUE

\* data.items.map(...): one entry per element; reading .itemId of null throws
importedItemOf(item) ==
    [itemId |-> IF item.type = "string" THEN item.str ELSE item.itemId,
     loop |-> (item.type \in {"object", "null"} /\ item.loop = "true")]

MapThrows(elems) == \E k \in 1..Len(elems) : elems[k].type = "null"

\* handleImportPlaylist without its test of data.name and data.items
importOutcome_NoFormatCheck(data) ==
    IF ~data.ok \/ data.type = "null" THEN "invalid"
    ELSE IF MapThrows(data.items.elems) THEN "invalid"
    ELSE "built"

\* the try block of handleImportPlaylist up to the playlist it builds:
\* "invalid" for the catch branch and for the format alert
importOutcome(data) ==
    IF ~data.ok \/ data.type = "null" THEN "invalid"
    ELSE IF ~Truthy(data.name) \/ data.items.type # "array" THEN "invalid"
    ELSE IF MapThrows(data.items.elems) THEN "invalid"
    ELSE "built"

\* an import that leaves out the entries the catalog does not know
importedPlaylistOf_DropsMissing(data) ==
    [id |-> newPlaylistId,
     items |-> SelectSeq([k \in 1..Len(data.items.elems) |->
                             importedItemOf(data.items.elems[k])],
                         LAMBDA e : InCatalog(e.itemId)),
     shared |-> TRUE,
     shareId |-> generateShareId]

importedPlaylistOf(data) ==
    [id |-> newPlaylistId,
     items |-> [k \in 1..Len(data.items.elems) |-> importedItemOf(data.items.elems[k])],
     shared |-> TRUE,
     shareId |-> generateShareId]

missingItems(playlist) == SelectSeq(playlist.items, LAMBDA e : ~InCatalog(e.itemId))

\* ------------------------------------------------------- the playlist editor
NoDrag == -1                                                    \* draggedItemIndex === null

HasItem(playlist, itemId) ==
    \E k \in 1..Len(playlist.items) : playlist.items[k].itemId = itemId

\* addItem that appends without looking for the item
addItemTo_NoCheck(p, playlistId, itemId) ==
    IF p.id = playlistId
    THEN [p EXCEPT !.items = Append(@, [itemId |-> itemId, loop |-> FALSE])]
    ELSE p

\* updatePlaylist of handleAddItemToPlaylist
addItemTo(p, playlistId, itemId) ==
    IF p.id = playlistId
    THEN IF HasItem(p, itemId) THEN p
         ELSE [p EXCEPT !.items = Append(@, [itemId |-> itemId, loop |-> FALSE])]
    ELSE p

\* arr.splice(index, 1) on a copy: the array left and the elements removed
SpliceOut(seq, index) ==
    IF index < 0 \/ index >= Len(seq) THEN [rest |-> seq, removed |-> <<>>]
    ELSE [rest |-> SubSeq(seq, 1, index) \o SubSeq(seq, index + 2, Len(seq)),
          removed |-> << seq[index + 1] >>]

\* arr.splice(index, 0, x): the start is clamped to the array's length
SpliceIn(seq, index, x) ==
    LET at == IF index > Len(seq) THEN Len(seq) ELSE IF index < 0 THEN 0 ELSE index
    IN  SubSeq(seq, 1, at) \o << x >> \o SubSeq(seq, at + 1, Len(seq))

\* a reorder that puts the removed entry back after the drop row
moveItem_AfterTarget(seq, fromIndex, toIndex) ==
    LET out == SpliceOut(seq, fromIndex)
    IN  IF out.removed = <<>> THEN seq
        ELSE SpliceIn(out.rest, toIndex + 1, out.removed[1])

\* the two splices of handleReorderPlaylistItems; the entry removed from an index
\* outside the array is undefined and is not modelled (the rows that can be
\* dragged and dropped on are rows of the array)
moveItem(seq, fromIndex, toIndex) ==
    LET out == SpliceOut(seq, fromIndex)
    IN  IF out.removed = <<>> THEN seq
        ELSE SpliceIn(out.rest, toIndex, out.removed[1])

reorderIn(p, playlistId, fromIndex, toIndex) ==
    IF p.id = playlistId
    THEN [p EXCEPT !.items = moveItem(@, fromIndex, toIndex)]
    ELSE p

\* ---------------------------------------------------------------- the state
\* a stored pair of playlists: a dangling entry between two playable ones, the
\* last of them looping; and a second playlist to delete or play beside it
p1Items == << [itemId |-> "A", loop |-> FALSE], [itemId |-> DanglingId, loop |-> FALSE],
              [itemId |-> "B", loop |-> TRUE] >>
p2Items == << [itemId |-> "C", loop |-> FALSE] >>

\* localStorage 'drjoe-playlists' at start: one playlist of any content, or the pair
StoredPlaylists ==
    {<< [id |-> "p1", items |-> c, shared |-> FALSE, shareId |-> NoShareId] >> :
            c \in PlaylistContents}
        \cup {<< [id |-> "p1", items |-> p1Items, shared |-> FALSE, shareId |-> NoShareId],
                 [id |-> "p2", items |-> p2Items, shared |-> FALSE, shareId |-> NoShareId] >>}

InitState ==
    /\ MEDIA_BASE_URL \in {NoUrl, <<"b", "/">>}
    /\ items = <<>>
    /\ playlists \in StoredPlaylists
    /\ selectedId = NULL
    /\ currentPlaylist = NoPlaylist
    /\ playlistIndex = 0
    /\ loopMode = "none"
    /\ isPlaying = FALSE
    /\ playbackPosition = 0
    /\ playbackDuration = 0
    /\ shouldAutoPlay = FALSE
    /\ mediaSrc = NoUrl
    /\ mediaCurrentTime = 0
    /\ mediaPaused = TRUE
    /\ mediaReady = FALSE
    /\ effectDeps = <<NoUrl, FALSE>>
    /\ sharedPlaylists = <<>>
    /\ inMemoryStorage = <<>>
    /\ shareIdsIssued = 0
    /\ assignedShareId = [id \in PlaylistIds |-> NoShareId]
    /\ pending = NoRequest
    /\ editingPlaylist = NoPlaylist
    /\ idsIssued = 0
    /\ draggedItemIndex = NoDrag
    /\ importData = ""
    /\ shared_playlists = {}
    /\ clock = 0
    /\ lastWrite = [id \in PlaylistIds |-> NoWrite]
    /\ versionJson = "v1"
    /\ updateAvailable = NoVersion
    /\ versionChecks = {}
    /\ dismissed = <<>>
    /\ favorites = <<>>
    /\ sharedPlaylistsLoaded = FALSE
    /\ hasEnsuredMorningPlaylist = FALSE
    /\ ensuringMorningRef = FALSE
    /\ ensureDeps = << <<>>, <<>>, FALSE, FALSE >>
    /\ localFavorites = favorites
    /\ localPlaylists = playlists
    /\ currentVersion = storedVersion           \* set by the load effect
    /\ currentVersionRef = storedVersion
    /\ last = Env("init")

\* the client specifications run against a server without Supabase settings
\* and in a browser that has no stored version
Init == supabase = FALSE /\ storedVersion = NoVersion /\ InitState

mediaVars == << mediaSrc, mediaCurrentTime, mediaPaused, mediaReady, isPlaying >>
sessVars == << selectedId, currentPlaylist, playlistIndex, shouldAutoPlay >>
updateVars == << versionJson, storedVersion, currentVersion, currentVersionRef,
                 updateAvailable, versionChecks, dismissed >>
persistVars == << favorites, localFavorites >>
ensureVars == << sharedPlaylistsLoaded, hasEnsuredMorningPlaylist, ensuringMorningRef,
                 ensureDeps >>
appVars == << updateVars, persistVars, localPlaylists, ensureVars >>

\* a save effect that writes what was added at the end
storedAfter_Delta(stored, before, after) ==
    IF Len(after) > Len(before) THEN stored \o SubSeq(after, Len(before) + 1, Len(after))
    ELSE stored

\* a save effect, useEffect [value]: when the value has changed in the render
\* it is written in full under its key
storedAfter(stored, before, after) == IF after = before THEN stored ELSE after
fixedVars == << MEDIA_BASE_URL, appVars, items, playlists >>
editorVars == << editingPlaylist, idsIssued, draggedItemIndex, importData >>
serverVars == << supabase, shared_playlists, clock, lastWrite >>
storeVars == << sharedPlaylists, inMemoryStorage, shareIdsIssued, assignedShareId, pending,
               editorVars, serverVars >>
playbackVars == << sessVars, mediaVars, loopMode, playbackPosition, playbackDuration,
                   effectDeps >>

\* fetch('/catalog.json') resolves
catalogLoaded ==
    /\ Idle
    /\ items = <<>>
    /\ items' = Catalog
    /\ last' = Env("catalogLoaded")
    /\ UNCHANGED << MEDIA_BASE_URL, appVars, playlists, storeVars, sessVars, loopMode, mediaVars,
                    playbackPosition, playbackDuration, effectDeps >>

handlePlayPlaylist(playlist) ==
    /\ Idle
    /\ SetSess(handlePlayPlaylistSess(playlist))
    /\ last' = Did("handlePlayPlaylist", playlist.id)
    /\ UNCHANGED << fixedVars, storeVars, loopMode, mediaVars, playbackPosition,
                    playbackDuration, effectDeps >>

handleSelectItem(id) ==
    /\ Idle
    /\ SetSess(handleSelectItemSess(id))
    /\ last' = Did("handleSelectItem", id)
    /\ UNCHANGED << fixedVars, storeVars, loopMode, mediaVars, playbackPosition,
                    playbackDuration, effectDeps >>

handleSkipNext ==
    /\ Idle
    /\ SetSess(handleSkipNextSess)
    /\ last' = Did("handleSkipNext", NULL)
    /\ UNCHANGED << fixedVars, storeVars, loopMode, mediaVars, playbackPosition,
                    playbackDuration, effectDeps >>

handleSkipPrevious ==
    /\ Idle
    /\ SetSess(handleSkipPreviousSess)
    /\ \E ok \in BOOLEAN :
          SetMedia(IF SkipPreviousRestarts
                   THEN Play([CurMedia EXCEPT !.t = 0], ok) ELSE CurMedia)
    /\ last' = [Did("handleSkipPrevious", NULL) EXCEPT !.play = SkipPreviousRestarts]
    /\ UNCHANGED << fixedVars, storeVars, loopMode, playbackPosition, playbackDuration, effectDeps >>

cycleLoopMode ==
    /\ Idle
    /\ loopMode' = cycleLoopModeOf(loopMode)
    /\ last' = Did("cycleLoopMode", NULL)
    /\ UNCHANGED << fixedVars, storeVars, sessVars, mediaVars, playbackPosition,
                    playbackDuration, effectDeps >>

handleSeek(value) ==
    /\ SetMedia(SeekTo(CurMedia, value))
    /\ playbackPosition' = value
    /\ UNCHANGED << fixedVars, storeVars, sessVars, loopMode, playbackDuration, effectDeps >>

\* onChange of the seek slider, which is disabled while playbackDuration is 0
onChangeSeek(raw) ==
    /\ Idle
    /\ playbackDuration # 0
    /\ handleSeek(RangeInputValue(raw))
    /\ last' = Did("handleSeek", raw)

\* handleDeletePlaylist that clears the queue and lets the media element run on
handleDeletePlaylist_NoPause(playlistId) ==
    /\ Idle
    /\ editingPlaylist = NoPlaylist
    /\ IF currentPlaylist.id = playlistId
       THEN /\ currentPlaylist' = NoPlaylist
            /\ playlistIndex' = 0
            /\ UNCHANGED mediaVars
       ELSE UNCHANGED << currentPlaylist, playlistIndex, mediaVars >>
    /\ playlists' = SelectSeq(playlists, LAMBDA q : q.id # playlistId)
    /\ last' = Did("handleDeletePlaylist", playlistId)
    /\ localPlaylists' = storedAfter(localPlaylists, playlists, playlists')
    /\ UNCHANGED << MEDIA_BASE_URL, updateVars, persistVars, ensureVars, items, storeVars, selectedId, shouldAutoPlay, loopMode,
                    playbackPosition, playbackDuration, effectDeps >>

\* the private branch (isShared = false)
handleDeletePlaylist(playlistId) ==
    /\ Idle
    /\ editingPlaylist = NoPlaylist
    /\ IF currentPlaylist.id = playlistId
       THEN /\ currentPlaylist' = NoPlaylist
            /\ playlistIndex' = 0
            /\ SetMedia(Pause(CurMedia))
       ELSE UNCHANGED << currentPlaylist, playlistIndex, mediaVars >>
    /\ playlists' = SelectSeq(playlists, LAMBDA q : q.id # playlistId)
    /\ last' = Did("handleDeletePlaylist", playlistId)
    /\ localPlaylists' = storedAfter(localPlaylists, playlists, playlists')
    /\ UNCHANGED << MEDIA_BASE_URL, updateVars, persistVars, ensureVars, items, storeVars, selectedId, shouldAutoPlay, loopMode,
                    playbackPosition, playbackDuration, effectDeps >>

\* the play/pause button of the mini player
onClickPlayPause ==
    /\ Idle
    /\ \E ok \in BOOLEAN :
          SetMedia(IF selected = NoItem THEN CurMedia
                   ELSE IF mediaPaused THEN Play(CurMedia, ok) ELSE Pause(CurMedia))
    /\ last' = [Did("onClickPlayPause", NULL) EXCEPT !.play = (selected # NoItem /\ mediaPaused)]
    /\ UNCHANGED << fixedVars, storeVars, sessVars, loopMode, playbackPosition,
                    playbackDuration, effectDeps >>

\* the sync effect without the reset of the duration on a source change
mediaSyncEffect_KeepsDuration ==
    /\ ~Idle
    /\ effectDeps' = <<selectedMediaUrl, shouldAutoPlay>>
    /\ IF selectedMediaUrl = NoUrl
       THEN /\ SetMedia([(IF mediaSrc # NoUrl THEN Load(Pause(CurMedia), NoUrl) ELSE CurMedia)
                            EXCEPT !.isPlaying = FALSE])
            /\ playbackPosition' = 0
            /\ playbackDuration' = 0
            /\ shouldAutoPlay' = FALSE
       ELSE LET srcChanged == mediaSrc # selectedMediaUrl
                m1 == IF srcChanged THEN Load(CurMedia, selectedMediaUrl) ELSE CurMedia
            IN  /\ \E ok \in BOOLEAN :
                      SetMedia(IF shouldAutoPlay THEN Play(m1, ok) ELSE m1)
                /\ playbackPosition' = IF srcChanged THEN 0 ELSE playbackPosition
                /\ playbackDuration' = playbackDuration
                /\ shouldAutoPlay' = FALSE
    /\ last' = [Env("mediaSyncEffect") EXCEPT
                    !.play = (selectedMediaUrl # NoUrl /\ shouldAutoPlay)]
    /\ UNCHANGED << fixedVars, storeVars, selectedId, currentPlaylist, playlistIndex, loopMode >>

\* "Keep the single media element in sync with selected item"
mediaSyncEffect ==
    /\ ~Idle
    /\ effectDeps' = <<selectedMediaUrl, shouldAutoPlay>>
    /\ IF selectedMediaUrl = NoUrl
       THEN /\ SetMedia([(IF mediaSrc # NoUrl THEN Load(Pause(CurMedia), NoUrl) ELSE CurMedia)
                            EXCEPT !.isPlaying = FALSE])
            /\ playbackPosition' = 0
            /\ playbackDuration' = 0
            /\ shouldAutoPlay' = FALSE
       ELSE LET srcChanged == mediaSrc # selectedMediaUrl
                m1 == IF srcChanged THEN Load(CurMedia, selectedMediaUrl) ELSE CurMedia
            IN  /\ \E ok \in BOOLEAN :
                      SetMedia(IF shouldAutoPlay THEN Play(m1, ok) ELSE m1)
                /\ playbackPosition' = IF srcChanged THEN 0 ELSE playbackPosition
                /\ playbackDuration' = IF srcChanged THEN 0 ELSE playbackDuration
                /\ shouldAutoPlay' = FALSE
    /\ last' = [Env("mediaSyncEffect") EXCEPT
                    !.play = (selectedMediaUrl # NoUrl /\ shouldAutoPlay)]
    /\ UNCHANGED << fixedVars, storeVars, selectedId, currentPlaylist, playlistIndex, loopMode >>

\* 'loadedmetadata' of the current source
handleLoadedMetadata ==
    /\ Idle
    /\ mediaSrc # NoUrl /\ ~mediaReady
    /\ mediaReady' = TRUE
    /\ playbackDuration' = MaxTime
    /\ last' = Env("handleLoadedMetadata")
    /\ UNCHANGED << fixedVars, storeVars, sessVars, loopMode, mediaSrc, mediaCurrentTime,
                    mediaPaused, isPlaying, playbackPosition, effectDeps >>

\* one second of playback, reported by 'timeupdate'
timeAdvances ==
    /\ Idle
    /\ mediaSrc # NoUrl /\ mediaReady /\ ~mediaPaused /\ mediaCurrentTime < MaxTime
    /\ mediaCurrentTime' = mediaCurrentTime + 1
    /\ playbackPosition' = mediaCurrentTime + 1
    /\ last' = Env("timeAdvances")
    /\ UNCHANGED << fixedVars, storeVars, sessVars, loopMode, mediaSrc, mediaPaused, mediaReady,
                    isPlaying, playbackDuration, effectDeps >>

\* the 'timeupdate' that follows an assignment to media.currentTime
handleTimeUpdate ==
    /\ Idle
    /\ playbackPosition # mediaCurrentTime
    /\ playbackPosition' = mediaCurrentTime
    /\ last' = Env("handleTimeUpdate")
    /\ UNCHANGED << fixedVars, storeVars, sessVars, loopMode, mediaVars, playbackDuration, effectDeps >>

\* playback reaches the end: the element pauses itself ('pause'), then 'ended'
handleEnded ==
    /\ Idle
    /\ mediaSrc # NoUrl /\ mediaReady /\ ~mediaPaused /\ mediaCurrentTime = MaxTime
    /\ SetSess(handleEndedSess)
    /\ \E ok \in BOOLEAN :
          SetMedia(IF loopMode = "one"
                   THEN Play([Pause(CurMedia) EXCEPT !.t = 0], ok)
                   ELSE Pause(CurMedia))   \* setIsPlaying(false) writes the value 'pause' left
    /\ last' = [Did("handleEnded", NULL) EXCEPT !.play = (loopMode = "one")]
    /\ UNCHANGED << fixedVars, storeVars, loopMode, playbackPosition, playbackDuration, effectDeps >>

\* handleSharePlaylist up to its first await
handleSharePlaylist(playlist) ==
    /\ editingPlaylist = NoPlaylist
    /\ pending = NoRequest
    /\ IF playlist.shared
       THEN /\ Len(playlists) < MaxPlaylists
            /\ pending' = [kind |-> "unshare", playlist |-> playlist, closure |-> playlists,
                           stage |-> "sent", ok |-> FALSE]
            /\ UNCHANGED shareIdsIssued
       ELSE /\ playlist.shareId # NoShareId \/ shareIdsIssued < MaxShareIds
            /\ pending' = [kind |-> "share", playlist |-> sharedPlaylistOf(playlist),
                           closure |-> playlists, stage |-> "sent", ok |-> FALSE]
            /\ shareIdsIssued' = IF playlist.shareId # NoShareId THEN shareIdsIssued
                                 ELSE shareIdsIssued + 1
    /\ last' = Did("handleSharePlaylist", playlist.id)
    /\ UNCHANGED << serverVars, fixedVars, playbackVars, sharedPlaylists, inMemoryStorage,
                    assignedShareId, editorVars >>

\* the server function answers the POST (share, save, import) or the DELETE
\* (unshare, delete) with ok, or the request fails
serverResponds(ok) ==
    /\ pending.stage = "sent"
    /\ inMemoryStorage' =
          IF ~ok THEN inMemoryStorage
          ELSE IF pending.kind \in {"share", "save", "import", "ensure"}
               THEN writePlaylist(inMemoryStorage, pending.playlist)
          ELSE deletePlaylist(inMemoryStorage, pending.playlist.id)
    /\ assignedShareId' =
          IF ok /\ pending.kind = "share" /\ assignedShareId[pending.playlist.id] = NoShareId
          THEN [assignedShareId EXCEPT ![pending.playlist.id] = pending.playlist.shareId]
          ELSE assignedShareId
    /\ pending' = [pending EXCEPT !.stage = IF ok THEN "answered" ELSE "refreshed", !.ok = ok]
    /\ last' = Env("serverResponds")
    /\ UNCHANGED << serverVars,
                    fixedVars, playbackVars, sharedPlaylists, shareIdsIssued, editorVars >>

\* saveSharedPlaylist / deleteSharedPlaylist refresh the list after an ok answer
fetchSharedPlaylists(ok) ==
    /\ pending.stage = "answered"
    /\ sharedPlaylists' = IF ok THEN readPlaylists(inMemoryStorage) ELSE sharedPlaylists
    /\ pending' = [pending EXCEPT !.stage = "refreshed"]
    /\ last' = Env("fetchSharedPlaylists")
    /\ UNCHANGED << serverVars, fixedVars, playbackVars, inMemoryStorage, shareIdsIssued,
                    assignedShareId, editorVars >>

\* handleSharePlaylist after its await
handleSharePlaylistResumes ==
    /\ pending.stage = "refreshed"
    /\ pending.kind \in {"share", "unshare"}
    /\ playlists' =
          IF pending.kind = "unshare"
          THEN Append(pending.closure, unsharedPlaylistOf(pending.playlist))
          ELSE IF pending.ok
               THEN SelectSeq(pending.closure, LAMBDA q : q.id # pending.playlist.id)
               ELSE playlists
    /\ pending' = NoRequest
    /\ last' = Did("handleSharePlaylistResumes", pending.playlist.id)
    /\ localPlaylists' = storedAfter(localPlaylists, playlists, playlists')
    /\ UNCHANGED << serverVars,
                    MEDIA_BASE_URL, updateVars, persistVars, ensureVars, items, playbackVars, sharedPlaylists, inMemoryStorage,
                    shareIdsIssued, assignedShareId, editorVars >>

\* the Edit button of a playlist row
onClickEditPlaylist(playlist) ==
    /\ editingPlaylist = NoPlaylist
    /\ editingPlaylist' = playlist
    /\ last' = Did("onClickEditPlaylist", playlist.id)
    /\ UNCHANGED << serverVars,
                    fixedVars, playbackVars, sharedPlaylists, inMemoryStorage, shareIdsIssued,
                    assignedShareId, pending, idsIssued, draggedItemIndex, importData >>

\* the visibility switch of the editor
toggleVisibilityOf(playlist) ==
    [playlist EXCEPT !.shared = ~playlist.shared,
                     !.shareId = IF ~playlist.shared /\ playlist.shareId = NoShareId
                                 THEN generateShareId ELSE playlist.shareId]

onChangeVisibility ==
    /\ editingPlaylist # NoPlaylist
    /\ editingPlaylist.shared \/ editingPlaylist.shareId # NoShareId
          \/ shareIdsIssued < MaxShareIds
    /\ editingPlaylist' = toggleVisibilityOf(editingPlaylist)
    /\ shareIdsIssued' = IF ~editingPlaylist.shared /\ editingPlaylist.shareId = NoShareId
                         THEN shareIdsIssued + 1 ELSE shareIdsIssued
    /\ last' = Did("onChangeVisibility", editingPlaylist.id)
    /\ UNCHANGED << serverVars, fixedVars, playbackVars, sharedPlaylists, inMemoryStorage,
                    assignedShareId, pending, idsIssued, draggedItemIndex, importData >>

\* handleSavePlaylist: the private branch completes at once, the shared branch
\* runs up to its await
handleSavePlaylist ==
    /\ editingPlaylist # NoPlaylist
    /\ IF editingPlaylist.shared
       THEN /\ pending = NoRequest
            /\ pending' = [kind |-> "save", playlist |-> editingPlaylist,
                           closure |-> playlists, stage |-> "sent", ok |-> FALSE]
            /\ UNCHANGED << playlists, editingPlaylist, draggedItemIndex >>
       ELSE /\ playlists' = [i \in 1..Len(playlists) |->
                                IF playlists[i].id = editingPlaylist.id
                                THEN editingPlaylist ELSE playlists[i]]
            /\ editingPlaylist' = NoPlaylist
            /\ draggedItemIndex' = NoDrag
            /\ UNCHANGED pending
    /\ last' = Did("handleSavePlaylist", editingPlaylist.id)
    /\ localPlaylists' = storedAfter(localPlaylists, playlists, playlists')
    /\ UNCHANGED << serverVars,
                    MEDIA_BASE_URL, updateVars, persistVars, ensureVars, items, playbackVars, sharedPlaylists, inMemoryStorage,
                    shareIdsIssued, assignedShareId, idsIssued, importData >>

\* handleSavePlaylist after its await
handleSavePlaylistResumes ==
    /\ pending.stage = "refreshed"
    /\ pending.kind = "save"
    /\ IF pending.ok
       THEN editingPlaylist' = NoPlaylist /\ draggedItemIndex' = NoDrag
       ELSE UNCHANGED << editingPlaylist, draggedItemIndex >>
    /\ pending' = NoRequest
    /\ last' = Did("handleSavePlaylistResumes", pending.playlist.id)
    /\ UNCHANGED << serverVars, fixedVars, playbackVars, sharedPlaylists, inMemoryStorage,
                    shareIdsIssued, assignedShareId, idsIssued, importData >>

\* handleDeletePlaylist, the shared branch (isShared = true), up to its await
handleDeleteSharedPlaylist(playlistId) ==
    /\ Idle
    /\ editingPlaylist = NoPlaylist
    /\ pending = NoRequest
    /\ IF currentPlaylist.id = playlistId
       THEN /\ currentPlaylist' = NoPlaylist
            /\ playlistIndex' = 0
            /\ SetMedia(Pause(CurMedia))
       ELSE UNCHANGED << currentPlaylist, playlistIndex, mediaVars >>
    /\ pending' = [kind |-> "delete", playlist |-> [NoPlaylist EXCEPT !.id = playlistId],
                   closure |-> playlists, stage |-> "sent", ok |-> FALSE]
    /\ last' = Did("handleDeletePlaylist", playlistId)
    /\ UNCHANGED << serverVars, fixedVars, selectedId, shouldAutoPlay, loopMode, playbackPosition,
                    playbackDuration, effectDeps, sharedPlaylists, inMemoryStorage,
                    shareIdsIssued, assignedShareId, editorVars >>

\* handleDeletePlaylist after its await: an alert when the delete failed
handleDeletePlaylistResumes ==
    /\ pending.stage = "refreshed"
    /\ pending.kind = "delete"
    /\ pending' = NoRequest
    /\ last' = Did("handleDeletePlaylistResumes", pending.playlist.id)
    /\ UNCHANGED << serverVars, fixedVars, playbackVars, sharedPlaylists, inMemoryStorage,
                    shareIdsIssued, assignedShareId, editorVars >>

\* the Back button of the editor
resetPlaylistEditorState ==
    /\ editingPlaylist # NoPlaylist
    /\ editingPlaylist' = NoPlaylist
    /\ draggedItemIndex' = NoDrag
    /\ last' = Env("resetPlaylistEditorState")
    /\ UNCHANGED << serverVars,
                    fixedVars, playbackVars, sharedPlaylists, inMemoryStorage, shareIdsIssued,
                    assignedShareId, pending, idsIssued, importData >>

handleCreatePlaylist ==
    /\ idsIssued < MaxNewIds
    /\ Len(playlists) < MaxPlaylists
    /\ LET newPlaylist == [id |-> newPlaylistId, items |-> <<>>, shared |-> FALSE,
                           shareId |-> NoShareId]
       IN /\ playlists' = Append(playlists, newPlaylist)
          /\ editingPlaylist' = newPlaylist
    /\ idsIssued' = idsIssued + 1
    /\ last' = Did("handleCreatePlaylist", newPlaylistId)
    /\ localPlaylists' = storedAfter(localPlaylists, playlists, playlists')
    /\ UNCHANGED << serverVars,
                    MEDIA_BASE_URL, updateVars, persistVars, ensureVars, items, playbackVars, sharedPlaylists, inMemoryStorage,
                    shareIdsIssued, assignedShareId, pending, draggedItemIndex, importData >>

\* typing or pasting into the import panel's textarea
onChangeImportData(text) ==
    /\ editingPlaylist = NoPlaylist
    /\ importData' = text
    /\ last' = Env("onChangeImportData")
    /\ UNCHANGED << serverVars,
                    fixedVars, playbackVars, sharedPlaylists, inMemoryStorage, shareIdsIssued,
                    assignedShareId, pending, editingPlaylist, idsIssued, draggedItemIndex >>

\* handleImportPlaylist up to its await; confirmed is the answer to the
\* "not available in your library" dialog
handleImportPlaylist(confirmed) ==
    /\ editingPlaylist = NoPlaylist
    /\ pending = NoRequest
    /\ LET data == JSONparse(importData)
           sends == /\ importOutcome(data) = "built"
                    /\ (Len(missingItems(importedPlaylistOf(data))) > 0 => confirmed)
       IN  IF sends
           THEN /\ idsIssued < MaxNewIds
                /\ shareIdsIssued < MaxShareIds
                /\ pending' = [kind |-> "import", playlist |-> importedPlaylistOf(data),
                               closure |-> playlists, stage |-> "sent", ok |-> FALSE]
                /\ idsIssued' = idsIssued + 1
                /\ shareIdsIssued' = shareIdsIssued + 1
           ELSE UNCHANGED << pending, idsIssued, shareIdsIssued >>
    /\ last' = Did("handleImportPlaylist", importData)
    /\ UNCHANGED << serverVars, fixedVars, playbackVars, sharedPlaylists, inMemoryStorage,
                    assignedShareId, editingPlaylist, draggedItemIndex, importData >>

\* handleImportPlaylist after its await
handleImportPlaylistResumes ==
    /\ pending.stage = "refreshed"
    /\ pending.kind = "import"
    /\ importData' = IF pending.ok THEN "" ELSE importData
    /\ pending' = NoRequest
    /\ last' = Did("handleImportPlaylistResumes", pending.playlist.id)
    /\ UNCHANGED << serverVars, fixedVars, playbackVars, sharedPlaylists, inMemoryStorage,
                    shareIdsIssued, assignedShareId, editingPlaylist, idsIssued,
                    draggedItemIndex >>

\* handleAddItemToPlaylist as the editor's add section calls it:
\* (editingPlaylist.id, itemId, editingPlaylist.shared)
handleAddItemToPlaylist(itemId) ==
    /\ editingPlaylist # NoPlaylist
    /\ IF editingPlaylist.shared
       THEN /\ sharedPlaylists' = [i \in 1..Len(sharedPlaylists) |->
                                      addItemTo(sharedPlaylists[i], editingPlaylist.id, itemId)]
            /\ UNCHANGED playlists
       ELSE /\ playlists' = [i \in 1..Len(playlists) |->
                                addItemTo(playlists[i], editingPlaylist.id, itemId)]
            /\ UNCHANGED sharedPlaylists
    /\ editingPlaylist' =
          IF InCatalog(itemId) /\ ~HasItem(editingPlaylist, itemId)
          THEN [editingPlaylist EXCEPT !.items = Append(@, [itemId |-> itemId, loop |-> FALSE])]
          ELSE editingPlaylist
    /\ last' = [Did("handleAddItemToPlaylist", itemId) EXCEPT !.queue = editingPlaylist.id]
    /\ localPlaylists' = storedAfter(localPlaylists, playlists, playlists')
    /\ UNCHANGED << serverVars,
                    MEDIA_BASE_URL, updateVars, persistVars, ensureVars, items, playbackVars, inMemoryStorage, shareIdsIssued,
                    assignedShareId, pending, idsIssued, draggedItemIndex, importData >>

\* handleRemoveItemFromPlaylist as the row's remove button calls it:
\* (editingPlaylist.id, index, editingPlaylist.shared)
handleRemoveItemFromPlaylist(index) ==
    LET updatePlaylist(q) == IF q.id = editingPlaylist.id
                             THEN [q EXCEPT !.items = SpliceOut(@, index).rest] ELSE q
    IN  /\ editingPlaylist # NoPlaylist
        /\ index \in 0..(Len(editingPlaylist.items) - 1)
        /\ InCatalog(editingPlaylist.items[index + 1].itemId)
        /\ IF editingPlaylist.shared
           THEN /\ sharedPlaylists' = [i \in 1..Len(sharedPlaylists) |->
                                          updatePlaylist(sharedPlaylists[i])]
                /\ UNCHANGED playlists
           ELSE /\ playlists' = [i \in 1..Len(playlists) |-> updatePlaylist(playlists[i])]
                /\ UNCHANGED sharedPlaylists
        /\ editingPlaylist' = updatePlaylist(editingPlaylist)
        /\ last' = [Did("handleRemoveItemFromPlaylist", index) EXCEPT
                        !.queue = editingPlaylist.id]
        /\ localPlaylists' = storedAfter(localPlaylists, playlists, playlists')
        /\ UNCHANGED << serverVars,
                        MEDIA_BASE_URL, updateVars, persistVars, ensureVars, items, playbackVars, inMemoryStorage, shareIdsIssued,
                        assignedShareId, pending, idsIssued, draggedItemIndex, importData >>

\* a loop toggle that also rewrites the queue that is playing
handleToggleLoopItem_Live(index) ==
    LET toggleAt(seq) == [seq EXCEPT ![index + 1].loop = ~@]
        updatePlaylist(q) == IF q.id = editingPlaylist.id
                             THEN [q EXCEPT !.items = toggleAt(@)] ELSE q
        stored == IF editingPlaylist.shared THEN sharedPlaylists ELSE playlists
    IN  /\ editingPlaylist # NoPlaylist
        /\ index \in 0..(Len(editingPlaylist.items) - 1)
        /\ InCatalog(editingPlaylist.items[index + 1].itemId)
        /\ \A i \in 1..Len(stored) :
              stored[i].id = editingPlaylist.id => index < Len(stored[i].items)
        /\ IF editingPlaylist.shared
           THEN /\ sharedPlaylists' = [i \in 1..Len(sharedPlaylists) |->
                                          updatePlaylist(sharedPlaylists[i])]
                /\ UNCHANGED playlists
           ELSE /\ playlists' = [i \in 1..Len(playlists) |-> updatePlaylist(playlists[i])]
                /\ UNCHANGED sharedPlaylists
        /\ editingPlaylist' = [editingPlaylist EXCEPT !.items = toggleAt(@)]
        /\ last' = [Did("handleToggleLoopItem", index) EXCEPT !.queue = editingPlaylist.id]
        /\ currentPlaylist' = updatePlaylist(currentPlaylist)
        /\ localPlaylists' = storedAfter(localPlaylists, playlists, playlists')
        /\ UNCHANGED << serverVars,
                        MEDIA_BASE_URL, updateVars, persistVars, ensureVars, items, selectedId, playlistIndex, shouldAutoPlay, mediaVars, loopMode,
                        playbackPosition, playbackDuration, effectDeps, inMemoryStorage, shareIdsIssued,
                        assignedShareId, pending, idsIssued, draggedItemIndex, importData >>

\* handleToggleLoopItem as the row's loop button calls it:
\* (editingPlaylist.id, index, editingPlaylist.shared); the rows are rows of the
\* stored playlist, so the index is one of its entries
handleToggleLoopItem(index) ==
    LET toggleAt(seq) == [seq EXCEPT ![index + 1].loop = ~@]
        updatePlaylist(q) == IF q.id = editingPlaylist.id
                             THEN [q EXCEPT !.items = toggleAt(@)] ELSE q
        stored == IF editingPlaylist.shared THEN sharedPlaylists ELSE playlists
    IN  /\ editingPlaylist # NoPlaylist
        /\ index \in 0..(Len(editingPlaylist.items) - 1)
        /\ InCatalog(editingPlaylist.items[index + 1].itemId)
        /\ \A i \in 1..Len(stored) :
              stored[i].id = editingPlaylist.id => index < Len(stored[i].items)
        /\ IF editingPlaylist.shared
           THEN /\ sharedPlaylists' = [i \in 1..Len(sharedPlaylists) |->
                                          updatePlaylist(sharedPlaylists[i])]
                /\ UNCHANGED playlists
           ELSE /\ playlists' = [i \in 1..Len(playlists) |-> updatePlaylist(playlists[i])]
                /\ UNCHANGED sharedPlaylists
        /\ editingPlaylist' = [editingPlaylist EXCEPT !.items = toggleAt(@)]
        /\ last' = [Did("handleToggleLoopItem", index) EXCEPT !.queue = editingPlaylist.id]
        /\ localPlaylists' = storedAfter(localPlaylists, playlists, playlists')
        /\ UNCHANGED << serverVars,
                        MEDIA_BASE_URL, updateVars, persistVars, ensureVars, items, playbackVars, inMemoryStorage, shareIdsIssued,
                        assignedShareId, pending, idsIssued, draggedItemIndex, importData >>

\* a row of the editor's item list starts being dragged
onDragStart(index) ==
    /\ editingPlaylist # NoPlaylist
    /\ index \in 0..(Len(editingPlaylist.items) - 1)
    /\ InCatalog(editingPlaylist.items[index + 1].itemId)
    /\ draggedItemIndex' = index
    /\ last' = Env("onDragStart")
    /\ UNCHANGED << serverVars,
                    fixedVars, playbackVars, sharedPlaylists, inMemoryStorage, shareIdsIssued,
                    assignedShareId, pending, editingPlaylist, idsIssued, importData >>

\* handleReorderPlaylistItems(playlistId, fromIndex, toIndex, isShared)
handleReorderPlaylistItems(playlistId, fromIndex, toIndex, isShared) ==
    /\ IF isShared
       THEN /\ sharedPlaylists' = [i \in 1..Len(sharedPlaylists) |->
                                      reorderIn(sharedPlaylists[i], playlistId, fromIndex, toIndex)]
            /\ UNCHANGED playlists
       ELSE /\ playlists' = [i \in 1..Len(playlists) |->
                                reorderIn(playlists[i], playlistId, fromIndex, toIndex)]
            /\ UNCHANGED sharedPlaylists
    /\ editingPlaylist' = reorderIn(editingPlaylist, playlistId, fromIndex, toIndex)

\* the dragged row is dropped on a row of the list
onDrop(index) ==
    /\ editingPlaylist # NoPlaylist
    /\ index \in 0..(Len(editingPlaylist.items) - 1)
    /\ InCatalog(editingPlaylist.items[index + 1].itemId)
    /\ IF draggedItemIndex # NoDrag /\ draggedItemIndex # index
       THEN handleReorderPlaylistItems(editingPlaylist.id, draggedItemIndex, index,
                                       editingPlaylist.shared)
       ELSE UNCHANGED << playlists, sharedPlaylists, editingPlaylist >>
    /\ draggedItemIndex' = NoDrag
    /\ last' = [op |-> "onDrop", arg |-> editingPlaylist.id, queue |-> NULL,
                index |-> index, late |-> FALSE, sel |-> selectedId, play |-> FALSE]
    /\ localPlaylists' = storedAfter(localPlaylists, playlists, playlists')
    /\ UNCHANGED << serverVars,
                    MEDIA_BASE_URL, updateVars, persistVars, ensureVars, items, playbackVars, inMemoryStorage, shareIdsIssued,
                    assignedShareId, pending, idsIssued, importData >>

\* POST /api/shared-playlists from any client; dbOk is false when Supabase
\* reports an error
handlerPOST(playlist, dbOk) ==
    /\ clock < MaxClock
    /\ playlist.shareId = NoShareId => shareIdsIssued < MaxShareIds
    /\ clock' = clock + 1
    /\ IF supabase
       THEN /\ shared_playlists' = IF dbOk
                                   THEN upsert(shared_playlists, postedPlaylistOf(playlist),
                                               clock + 1)
                                   ELSE shared_playlists
            /\ UNCHANGED inMemoryStorage
       ELSE /\ inMemoryStorage' = writePlaylist(inMemoryStorage, postedPlaylistOf(playlist))
            /\ UNCHANGED shared_playlists
    /\ lastWrite' = IF supabase /\ ~dbOk THEN lastWrite
                    ELSE [lastWrite EXCEPT ![playlist.id] =
                             [at |-> clock + 1, playlist |-> postedPlaylistOf(playlist),
                              request |-> playlist]]
    /\ shareIdsIssued' = IF playlist.shareId = NoShareId THEN shareIdsIssued + 1
                         ELSE shareIdsIssued
    /\ last' = [Env("handlerPOST") EXCEPT !.arg = playlist.id]
    /\ UNCHANGED << fixedVars, playbackVars, sharedPlaylists, assignedShareId, pending,
                    editorVars, supabase >>

\* DELETE /api/shared-playlists/:id from any client
handlerDELETE(playlistId, dbOk) ==
    /\ clock < MaxClock
    /\ clock' = clock + 1
    /\ IF supabase
       THEN /\ shared_playlists' = IF dbOk THEN deleteRows(shared_playlists, playlistId)
                                   ELSE shared_playlists
            /\ UNCHANGED inMemoryStorage
       ELSE /\ inMemoryStorage' = deletePlaylist(inMemoryStorage, playlistId)
            /\ UNCHANGED shared_playlists
    /\ lastWrite' = IF supabase /\ ~dbOk THEN lastWrite
                    ELSE [lastWrite EXCEPT ![playlistId] =
                             [at |-> clock + 1, playlist |-> NoPlaylist,
                              request |-> NoPlaylist]]
    /\ last' = [Env("handlerDELETE") EXCEPT !.arg = playlistId]
    /\ UNCHANGED << fixedVars, playbackVars, sharedPlaylists, shareIdsIssued,
                    assignedShareId, pending, editorVars, supabase >>

\* ------------------------------------------------------------ update check
\* a new build is deployed (or an earlier one is put back)
deploy(version) ==
    /\ version # versionJson
    /\ versionJson' = version
    /\ last' = [Env("deploy") EXCEPT !.arg = version]
    /\ UNCHANGED << MEDIA_BASE_URL, items, playlists, storeVars, playbackVars, persistVars,
                    localPlaylists, ensureVars, storedVersion,
                    currentVersion, currentVersionRef, updateAvailable, versionChecks,
                    dismissed >>

\* the timer calls checkForUpdates: up to the await of fetch('/version.json')
checkForUpdates(ok) ==
    /\ versionChecks' = versionChecks \cup {IF ok THEN versionJson ELSE FetchFailed}
    /\ last' = Env("checkForUpdates")
    /\ UNCHANGED << MEDIA_BASE_URL, items, playlists, storeVars, playbackVars, persistVars,
                    localPlaylists, ensureVars, versionJson,
                    storedVersion, currentVersion, currentVersionRef, updateAvailable,
                    dismissed >>

\* checkForUpdates after the await: the state it leaves
checkForUpdatesStep(response) ==
    IF response = FetchFailed
    THEN [updateAvailable |-> updateAvailable, currentVersion |-> currentVersion,
          storedVersion |-> storedVersion]
    ELSE IF currentVersionRef # NoVersion /\ currentVersionRef # response
    THEN [updateAvailable |-> response, currentVersion |-> currentVersion,
          storedVersion |-> storedVersion]
    ELSE IF currentVersionRef = NoVersion
    THEN [updateAvailable |-> updateAvailable, currentVersion |-> response,
          storedVersion |-> response]
    ELSE [updateAvailable |-> updateAvailable, currentVersion |-> currentVersion,
          storedVersion |-> storedVersion]

\* the fetch of a version check settles and checkForUpdates runs to its end
checkForUpdatesResumes(response) ==
    /\ response \in versionChecks
    /\ versionChecks' = versionChecks \ {response}
    /\ updateAvailable' = checkForUpdatesStep(response).updateAvailable
    /\ currentVersion' = checkForUpdatesStep(response).currentVersion
    /\ storedVersion' = checkForUpdatesStep(response).storedVersion
    /\ last' = [Env("checkForUpdatesResumes") EXCEPT !.arg = response]
    /\ UNCHANGED << MEDIA_BASE_URL, items, playlists, storeVars, playbackVars, persistVars,
                    localPlaylists, ensureVars, versionJson,
                    currentVersionRef, dismissed >>

\* useEffect [currentVersion] after the render that follows a version check
currentVersionEffect ==
    /\ currentVersionRef # currentVersion
    /\ currentVersionRef' = currentVersion
    /\ last' = Env("currentVersionEffect")
    /\ UNCHANGED << MEDIA_BASE_URL, items, playlists, storeVars, playbackVars, persistVars,
                    localPlaylists, ensureVars, versionJson,
                    storedVersion, currentVersion, updateAvailable, versionChecks,
                    dismissed >>

\* the notification's Later button; the render and the effect [currentVersion]
\* are part of the click
onClickLater ==
    /\ updateAvailable # NoVersion
    /\ storedVersion' = updateAvailable
    /\ currentVersion' = updateAvailable
    /\ currentVersionRef' = updateAvailable
    /\ updateAvailable' = NoVersion
    /\ dismissed' = Append(SelectSeq(dismissed, LAMBDA v : v # updateAvailable),
                          updateAvailable)
    /\ last' = [Env("onClickLater") EXCEPT !.arg = updateAvailable]
    /\ UNCHANGED << MEDIA_BASE_URL, items, playlists, storeVars, playbackVars, persistVars,
                    localPlaylists, ensureVars, versionJson,
                    versionChecks >>

\* the notification's Refresh button: the version is stored and the page
\* reloads, which drops the checks in flight and loads the stored version
handleUpdateRefresh ==
    /\ updateAvailable # NoVersion
    /\ storedVersion' = updateAvailable
    /\ currentVersion' = updateAvailable
    /\ currentVersionRef' = updateAvailable
    /\ updateAvailable' = NoVersion
    /\ versionChecks' = {}
    /\ dismissed' = Append(SelectSeq(dismissed, LAMBDA v : v # updateAvailable),
                          updateAvailable)
    /\ last' = [Env("handleUpdateRefresh") EXCEPT !.arg = updateAvailable]
    /\ UNCHANGED << MEDIA_BASE_URL, items, playlists, storeVars, playbackVars, persistVars,
                    localPlaylists, ensureVars, versionJson >>

\* ------------------------------------------------ favorites and local storage
\* a Set with itemId taken out if it has it, added at its end otherwise
toggled(set, itemId) ==
    IF \E i \in 1..Len(set) : set[i] = itemId
    THEN SelectSeq(set, LAMBDA id : id # itemId)
    ELSE Append(set, itemId)

handleToggleFavorite(itemId) ==
    /\ favorites' = toggled(favorites, itemId)
    /\ localFavorites' = storedAfter(localFavorites, favorites, favorites')
    /\ last' = [Env("handleToggleFavorite") EXCEPT !.arg = itemId]
    /\ UNCHANGED << MEDIA_BASE_URL, updateVars, localPlaylists, ensureVars, items, playlists,
                    storeVars, playbackVars >>

\* the page is opened again: every state cell starts from its initial value,
\* the save effects run on the initial values, the load effect reads the three
\* keys, and the save effects run on the loaded values
sessionStart ==
    /\ pending = NoRequest
    /\ favorites' = localFavorites
    /\ playlists' = localPlaylists
    /\ currentVersion' = storedVersion
    /\ currentVersionRef' = storedVersion
    /\ updateAvailable' = NoVersion
    /\ versionChecks' = {}
    /\ items' = <<>>
    /\ SetSess([selectedId |-> NULL, currentPlaylist |-> NoPlaylist, playlistIndex |-> 0,
                shouldAutoPlay |-> FALSE])
    /\ SetMedia([src |-> NoUrl, t |-> 0, paused |-> TRUE, ready |-> FALSE,
                 isPlaying |-> FALSE])
    /\ loopMode' = "none"
    /\ playbackPosition' = 0
    /\ playbackDuration' = 0
    /\ effectDeps' = <<NoUrl, FALSE>>
    /\ sharedPlaylists' = <<>>
    /\ editingPlaylist' = NoPlaylist
    /\ draggedItemIndex' = NoDrag
    /\ importData' = ""
    /\ sharedPlaylistsLoaded' = FALSE
    /\ hasEnsuredMorningPlaylist' = FALSE
    /\ ensuringMorningRef' = FALSE
    /\ ensureDeps' = << <<>>, <<>>, FALSE, FALSE >>
    /\ localFavorites' = storedAfter(<<>>, <<>>, favorites')
    /\ localPlaylists' = storedAfter(<<>>, <<>>, playlists')
    /\ last' = [op |-> "sessionStart", arg |-> NULL, queue |-> NULL, index |-> 0,
                late |-> FALSE, sel |-> NULL, play |-> FALSE]
    /\ UNCHANGED << MEDIA_BASE_URL, serverVars, inMemoryStorage, shareIdsIssued,
                    assignedShareId, pending, idsIssued, versionJson, storedVersion,
                    dismissed >>

\* ------------------------------------------------ the Morning Breathwork playlist
\* the playlist the effect builds from the catalog
morningPlaylist ==
    [id |-> MORNING_PLAYLIST_ID,
     items |-> LET found == SortByPath(SelectSeq(items,
                                LAMBDA item : item.path[1] = MORNING_COLLECTION))
               IN  [i \in 1..Len(found) |-> [itemId |-> found[i].id, loop |-> FALSE]],
     shared |-> TRUE, shareId |-> generateShareId]

\* the fetchSharedPlaylists call of the load effect settles
loadSharedPlaylists(ok) ==
    /\ ~sharedPlaylistsLoaded
    /\ sharedPlaylists' = IF ok THEN readPlaylists(inMemoryStorage) ELSE sharedPlaylists
    /\ sharedPlaylistsLoaded' = TRUE
    /\ last' = Env("loadSharedPlaylists")
    /\ UNCHANGED << MEDIA_BASE_URL, updateVars, persistVars, localPlaylists, items, playlists,
                    playbackVars, hasEnsuredMorningPlaylist, ensuringMorningRef, ensureDeps,
                    inMemoryStorage, shareIdsIssued, assignedShareId, pending, editorVars,
                    serverVars >>

\* useEffect [items, sharedPlaylists, sharedPlaylistsLoaded,
\* hasEnsuredMorningPlaylist]: up to the await of saveSharedPlaylist
ensureMorningEffect ==
    /\ ensureDeps # << items, sharedPlaylists, sharedPlaylistsLoaded,
                       hasEnsuredMorningPlaylist >>
    /\ ensureDeps' = << items, sharedPlaylists, sharedPlaylistsLoaded,
                        hasEnsuredMorningPlaylist >>
    /\ IF \/ hasEnsuredMorningPlaylist \/ ensuringMorningRef
          \/ ~sharedPlaylistsLoaded \/ Len(items) = 0
       THEN UNCHANGED << hasEnsuredMorningPlaylist, ensuringMorningRef, pending,
                         shareIdsIssued >>
       ELSE IF \E i \in 1..Len(sharedPlaylists) : sharedPlaylists[i].id = MORNING_PLAYLIST_ID
       THEN /\ hasEnsuredMorningPlaylist' = TRUE
            /\ UNCHANGED << ensuringMorningRef, pending, shareIdsIssued >>
       ELSE IF Len(morningPlaylist.items) = 0
       THEN UNCHANGED << hasEnsuredMorningPlaylist, ensuringMorningRef, pending,
                         shareIdsIssued >>
       ELSE /\ pending = NoRequest
            /\ shareIdsIssued < MaxShareIds
            /\ ensuringMorningRef' = TRUE
            /\ pending' = [kind |-> "ensure", playlist |-> morningPlaylist,
                           closure |-> <<>>, stage |-> "sent", ok |-> FALSE]
            /\ shareIdsIssued' = shareIdsIssued + 1
            /\ UNCHANGED hasEnsuredMorningPlaylist
    /\ last' = [Env("ensureMorningEffect") EXCEPT !.play = (pending' # pending)]
    /\ UNCHANGED << MEDIA_BASE_URL, updateVars, persistVars, localPlaylists, items, playlists,
                    playbackVars, sharedPlaylistsLoaded, sharedPlaylists, inMemoryStorage,
                    assignedShareId, editorVars, serverVars >>

\* the effect's async part after saveSharedPlaylist: on success the list is
\* fetched once more and the playlist is marked as ensured
ensureMorningResumes(ok) ==
    /\ pending.stage = "refreshed"
    /\ pending.kind = "ensure"
    /\ sharedPlaylists' = IF pending.ok /\ ok THEN readPlaylists(inMemoryStorage)
                          ELSE sharedPlaylists
    /\ hasEnsuredMorningPlaylist' = (pending.ok \/ hasEnsuredMorningPlaylist)
    /\ ensuringMorningRef' = FALSE
    /\ pending' = NoRequest
    /\ last' = Env("ensureMorningResumes")
    /\ UNCHANGED << MEDIA_BASE_URL, updateVars, persistVars, localPlaylists, items, playlists,
                    playbackVars, sharedPlaylistsLoaded, ensureDeps, inMemoryStorage,
                    shareIdsIssued, assignedShareId, editorVars, serverVars >>

Next ==
    \/ catalogLoaded
    \/ \E i \in 1..Len(playlists) : handlePlayPlaylist(playlists[i])
    \/ \E i \in 1..Len(items) : handleSelectItem(items[i].id)
    \/ handleSkipNext
    \/ handleSkipPrevious
    \/ cycleLoopMode
    \/ \E raw \in -1..(MaxTime + 1) : onChangeSeek(raw)
    \/ \E i \in 1..Len(playlists) : handleDeletePlaylist(playlists[i].id)
    \/ onClickPlayPause
    \/ mediaSyncEffect
    \/ handleLoadedMetadata
    \/ timeAdvances
    \/ handleTimeUpdate
    \/ handleEnded

Spec == Init /\ [][Next]_vars

\* the playlist tab: sharing, unsharing and deleting playlists
NextStore ==
    \/ \E i \in 1..Len(playlists) : handleSharePlaylist(playlists[i])
    \/ \E i \in 1..Len(sharedPlaylists) : handleSharePlaylist(sharedPlaylists[i])
    \/ \E ok \in BOOLEAN : serverResponds(ok)
    \/ \E ok \in BOOLEAN : fetchSharedPlaylists(ok)
    \/ handleSharePlaylistResumes
    \/ \E i \in 1..Len(playlists) : handleDeletePlaylist(playlists[i].id)

SpecStore == Init /\ [][NextStore]_vars

\* the playlist editor and the shared tab: creating a playlist, changing a
\* playlist's visibility and saving it, deleting a shared playlist
InitManager ==
    Init /\ Len(playlists) = 1 /\ Len(playlists[1].items) = 0 /\ MEDIA_BASE_URL = NoUrl

NextManager ==
    \/ \E ok \in BOOLEAN : serverResponds(ok)
    \/ \E ok \in BOOLEAN : fetchSharedPlaylists(ok)
    \/ \E i \in 1..Len(sharedPlaylists) : handleDeleteSharedPlaylist(sharedPlaylists[i].id)
    \/ handleDeletePlaylistResumes
    \/ \E i \in 1..Len(playlists) : onClickEditPlaylist(playlists[i])
    \/ \E i \in 1..Len(sharedPlaylists) : onClickEditPlaylist(sharedPlaylists[i])
    \/ onChangeVisibility
    \/ handleSavePlaylist
    \/ handleSavePlaylistResumes
    \/ resetPlaylistEditorState
    \/ handleCreatePlaylist

SpecManager == InitManager /\ [][NextManager]_vars

\* the import panel, with the play button of the playlist rows beside it
InitImport ==
    Init /\ Len(playlists) = 1 /\ Len(playlists[1].items) = 0 /\ MEDIA_BASE_URL # NoUrl

NextImport ==
    \/ catalogLoaded
    \/ \E text \in ImportTexts : onChangeImportData(text)
    \/ \E confirmed \in BOOLEAN : handleImportPlaylist(confirmed)
    \/ \E ok \in BOOLEAN : serverResponds(ok)
    \/ \E ok \in BOOLEAN : fetchSharedPlaylists(ok)
    \/ handleImportPlaylistResumes
    \/ \E i \in 1..Len(playlists) : handlePlayPlaylist(playlists[i])
    \/ \E i \in 1..Len(sharedPlaylists) : handlePlayPlaylist(sharedPlaylists[i])
    \/ mediaSyncEffect

SpecImport == InitImport /\ [][NextImport]_vars

\* the playlist editor: a stored playlist is opened, items are added and rows
\* are dragged, and the result is saved or dropped
InitEditor == Init /\ Len(playlists) = 2 /\ MEDIA_BASE_URL = NoUrl

NextEditor ==
    \/ catalogLoaded
    \/ \E i \in 1..Len(playlists) : onClickEditPlaylist(playlists[i])
    \/ \E i \in 1..Len(items) : handleAddItemToPlaylist(items[i].id)
    \/ \E index \in 0..(Len(editingPlaylist.items) - 1) : onDragStart(index)
    \/ \E index \in 0..(Len(editingPlaylist.items) - 1) : onDrop(index)
    \/ handleSavePlaylist
    \/ resetPlaylistEditorState

SpecEditor == InitEditor /\ [][NextEditor]_vars

\* a playlist is played and then edited and saved in the editor, or shared and
\* unshared from the list; the editor is opened while nothing is shared
InitSnapshot ==
    /\ Init
    /\ MEDIA_BASE_URL = NoUrl
    /\ playlists = << [id |-> "p1", shared |-> FALSE, shareId |-> NoShareId,
                       items |-> << [itemId |-> "A", loop |-> FALSE],
                                    [itemId |-> "B", loop |-> FALSE] >>] >>

NextSnapshot ==
    \/ catalogLoaded
    \/ \E i \in 1..Len(playlists) :
          editingPlaylist = NoPlaylist /\ handlePlayPlaylist(playlists[i])
    \/ \E i \in 1..Len(sharedPlaylists) :
          editingPlaylist = NoPlaylist /\ handlePlayPlaylist(sharedPlaylists[i])
    \/ mediaSyncEffect
    \/ \E i \in 1..Len(playlists) :
          /\ pending = NoRequest
          /\ inMemoryStorage = <<>>
          /\ onClickEditPlaylist(playlists[i])
    \/ InCatalog("A") /\ handleAddItemToPlaylist("A")
    \/ \E index \in 0..(Len(editingPlaylist.items) - 1) : handleRemoveItemFromPlaylist(index)
    \/ \E index \in 0..(Len(editingPlaylist.items) - 1) : handleToggleLoopItem(index)
    \/ \E index \in 0..(Len(editingPlaylist.items) - 1) : onDragStart(index)
    \/ \E index \in 0..(Len(editingPlaylist.items) - 1) : onDrop(index)
    \/ handleSavePlaylist
    \/ \E i \in 1..Len(playlists) : handleSharePlaylist(playlists[i])
    \/ \E i \in 1..Len(sharedPlaylists) : handleSharePlaylist(sharedPlaylists[i])
    \/ serverResponds(TRUE)
    \/ fetchSharedPlaylists(TRUE)
    \/ handleSharePlaylistResumes

SpecSnapshot == InitSnapshot /\ [][NextSnapshot]_vars

\* the server function under requests from any number of clients, with and
\* without Supabase settings
InitServer ==
    /\ supabase \in BOOLEAN
    /\ storedVersion = NoVersion
    /\ InitState
    /\ Len(playlists) = 1
    /\ Len(playlists[1].items) = 0
    /\ MEDIA_BASE_URL = NoUrl

NextServer ==
    \/ \E playlist \in ServerPayloads, dbOk \in BOOLEAN : handlerPOST(playlist, dbOk)
    \/ \E playlistId \in {"p1", "p2"}, dbOk \in BOOLEAN : handlerDELETE(playlistId, dbOk)

SpecServer == InitServer /\ [][NextServer]_vars

\* the update check of one browser over deployments, with or without a
\* version stored by an earlier session
InitUpdate ==
    /\ supabase = FALSE
    /\ storedVersion \in {NoVersion} \cup Versions
    /\ InitState
    /\ Len(playlists) = 1
    /\ Len(playlists[1].items) = 0
    /\ MEDIA_BASE_URL = NoUrl

NextUpdate ==
    \/ \E version \in Versions : deploy(version)
    \/ \E ok \in BOOLEAN : checkForUpdates(ok)
    \/ \E response \in versionChecks : checkForUpdatesResumes(response)
    \/ currentVersionEffect
    \/ onClickLater
    \/ handleUpdateRefresh

SpecUpdate == InitUpdate /\ [][NextUpdate]_vars

\* favorites and private playlists over sessions of one browser
NextPersist ==
    \/ catalogLoaded
    \/ InCatalog("A") /\ handleToggleFavorite("A")
    \/ handleCreatePlaylist
    \/ \E i \in 1..Len(playlists) : onClickEditPlaylist(playlists[i])
    \/ \E i \in 1..Len(items) : handleAddItemToPlaylist(items[i].id)
    \/ \E index \in 0..(Len(editingPlaylist.items) - 1) : onDragStart(index)
    \/ \E index \in 0..(Len(editingPlaylist.items) - 1) : onDrop(index)
    \/ handleSavePlaylist
    \/ resetPlaylistEditorState
    \/ \E i \in 1..Len(playlists) : handleDeletePlaylist(playlists[i].id)
    \/ sessionStart

SpecPersist == InitManager /\ [][NextPersist]_vars

\* the start of a session next to another browser that has the Morning
\* Breathwork playlist and saves it with the entries it gave it
NextEnsure ==
    \/ catalogLoaded
    \/ \E ok \in BOOLEAN : loadSharedPlaylists(ok)
    \/ \E c \in PayloadItems :
          handlerPOST([id |-> MORNING_PLAYLIST_ID, items |-> c, shared |-> TRUE,
                       shareId |-> sharedEarlier(MORNING_PLAYLIST_ID)], TRUE)
    \/ ensureMorningEffect
    \/ \E ok \in BOOLEAN : serverResponds(ok)
    \/ \E ok \in BOOLEAN : fetchSharedPlaylists(ok)
    \/ \E ok \in BOOLEAN : ensureMorningResumes(ok)

SpecEnsure == InitManager /\ [][NextEnsure]_vars

\* one play-playlist with loop mode None on a playlist without loop flags, and
\* no other input: every effect runs, and media that plays reaches its end
InitFinish ==
    /\ Init
    /\ MEDIA_BASE_URL # NoUrl
    /\ \A i \in 1..Len(playlists) :
          \A j \in 1..Len(playlists[i].items) : ~playlists[i].items[j].loop

NextFinish ==
    \/ catalogLoaded
    \/ \E i \in 1..Len(playlists) :
          last.op = "catalogLoaded" /\ handlePlayPlaylist(playlists[i])
    \/ mediaSyncEffect
    \/ handleLoadedMetadata
    \/ timeAdvances
    \/ handleTimeUpdate
    \/ handleEnded

SpecFinish ==
    /\ InitFinish
    /\ [][NextFinish]_vars
    /\ WF_vars(mediaSyncEffect)
    /\ WF_vars(handleLoadedMetadata)
    /\ WF_vars(timeAdvances)
    /\ WF_vars(handleTimeUpdate)
    /\ WF_vars(handleEnded)


\* ------------------------------------------------------------------ claims
\* the stored playlist a handler was given
PlaylistById(id) == playlists[CHOOSE i \in 1..Len(playlists) : playlists[i].id = id]

QueueLen == Len(currentPlaylist.items)
QueueActive == currentPlaylist # NoPlaylist

\* C1: whenever a playlist queue is active, the entry of the active playlist at the
\* queue position carries the selected item id (stated for sessions whose catalog
\* has loaded, so that an entry fails to resolve only by dangling).
C1_QueuePositionAgreement ==
    (items = Catalog /\ QueueActive) =>
        /\ playlistIndex < QueueLen
        /\ EntryAt(currentPlaylist, playlistIndex).itemId = selectedId

\* C2: whenever a playlist queue is active, the queue position is a valid index
\* into it: 0 <= position < number of entries.
C2_QueuePositionValid ==
    QueueActive => (0 <= playlistIndex /\ playlistIndex < QueueLen)

\* C2 witness: an end-of-item event has moved the queue to its last position
C2_Witness ==
    /\ last.op = "handleEnded"
    /\ QueueActive
    /\ last.queue = currentPlaylist.id
    /\ playlistIndex = last.index + 1
    /\ playlistIndex = QueueLen - 1

\* C3: play-playlist on a playlist with at least one entry leaves that playlist
\* active at position 0, its first entry's itemId selected and the autoplay flag set
\* (stated for sessions whose catalog has loaded).
C3_PlayPlaylistActivates ==
    [][(/\ items = Catalog
        /\ last'.op = "handlePlayPlaylist"
        /\ Len(PlaylistById(last'.arg).items) >= 1) =>
          /\ currentPlaylist' = PlaylistById(last'.arg)
          /\ playlistIndex' = 0
          /\ selectedId' = PlaylistById(last'.arg).items[1].itemId
          /\ shouldAutoPlay' = TRUE]_vars

\* every entry of the playlist is dangling
AllDangling(playlist) ==
    \A i \in 1..Len(playlist.items) : ~InCatalog(playlist.items[i].itemId)

\* C4: playing a playlist of length >= 1 none of whose entries resolves in the
\* (loaded) catalog changes neither the active queue, the queue position, the
\* selected item nor the autoplay flag.
C4_PlayAllDanglingIsNoOp ==
    [][(/\ items = Catalog
        /\ last'.op = "handlePlayPlaylist"
        /\ Len(PlaylistById(last'.arg).items) >= 1
        /\ AllDangling(PlaylistById(last'.arg))) => UNCHANGED sessVars]_vars

AtLastPosition == QueueActive /\ playlistIndex = QueueLen - 1
AtFirstPosition == QueueActive /\ playlistIndex = 0
NotLate == mediaCurrentTime <= RestartThreshold

CanMoveTo(target) ==
    /\ selected # NoItem
    /\ InCatalog(EntryAt(currentPlaylist, target).itemId)

C8_EntryLoopHolds ==
    [][(/\ last'.op = "handleEnded"
        /\ QueueActive
        /\ playlistIndex < QueueLen
        /\ EntryAt(currentPlaylist, playlistIndex).loop) =>
          UNCHANGED << playlistIndex, selectedId, currentPlaylist >>]_vars

\* C9: with loop mode One an end-of-item event leaves queue position, active queue
\* and selected item unchanged and resets the transport position to 0; nothing else
\* of the session changes.
C9_LoopOneIdempotent ==
    [][(last'.op = "handleEnded" /\ loopMode = "one") =>
          /\ UNCHANGED << playlistIndex, currentPlaylist, selectedId, shouldAutoPlay,
                          loopMode, playbackDuration, mediaSrc >>
          /\ mediaCurrentTime' = 0]_vars

\* C9 witness: a second end-of-item event in a row under loop mode One, inside a
\* playlist past its first entry
C9_Witness ==
    /\ last.op = "handleEnded"
    /\ loopMode = "one"
    /\ QueueActive
    /\ last.queue = currentPlaylist.id
    /\ last.index = playlistIndex
    /\ playlistIndex > 0
    /\ mediaCurrentTime = 0

\* C10: with a playlist active, loop mode not One and queue position + 1 in bounds,
\* an end-of-item event leaves the session skip-next would leave from the same state.
C10_EndedEqualsSkipNext ==
    [][(/\ last'.op = "handleEnded"
        /\ QueueActive
        /\ loopMode # "one"
        /\ playlistIndex + 1 < QueueLen) =>
          /\ selectedId' = handleSkipNextSess.selectedId
          /\ currentPlaylist' = handleSkipNextSess.currentPlaylist
          /\ playlistIndex' = handleSkipNextSess.playlistIndex
          /\ shouldAutoPlay' = handleSkipNextSess.shouldAutoPlay]_vars


\* C11: an end-of-item event at the last position of the active playlist, loop mode
\* not One: with loop mode None the queue is cleared, the selected item is the
\* playlist's last item and the transport is not playing; with loop mode All the
\* same playlist stays active at position 0 (stated for sessions whose catalog has
\* loaded).
C11_EndAtLastPosition ==
    [][(items = Catalog /\ last'.op = "handleEnded" /\ AtLastPosition) =>
          /\ loopMode = "none" =>
                /\ currentPlaylist' = NoPlaylist
                /\ selectedId' = EntryAt(currentPlaylist, QueueLen - 1).itemId
                /\ ~isPlaying'
          /\ loopMode = "all" =>
                /\ currentPlaylist' = currentPlaylist
                /\ playlistIndex' = 0]_vars

\* library order stated on its own: n follows it when its path is greater, and
\* immediately when no catalog path lies between the two
LibraryFollowers(it) == {n \in 1..Len(items) : PathLess(it.path, items[n].path)}
LibrarySuccessor(it) ==
    items[CHOOSE n \in LibraryFollowers(it) :
             \A m \in LibraryFollowers(it) : ~PathLess(items[m].path, items[n].path)]

\* C12: with no queue active and an item selected, skip-next selects the item that
\* immediately follows the selection in ascending path order and the queue stays
\* None; on the last item of that order with loop mode None, skip-next changes nothing.
C12_LibrarySkipNext ==
    [][(last'.op = "handleSkipNext" /\ ~QueueActive /\ selected # NoItem) =>
          /\ currentPlaylist' = NoPlaylist
          /\ LibraryFollowers(selected) # {} =>
                selectedId' = LibrarySuccessor(selected).id
          /\ (LibraryFollowers(selected) = {} /\ loopMode = "none") =>
                UNCHANGED << sessVars, mediaVars, loopMode, playbackPosition,
                             playbackDuration >>]_vars

\* C12 witness: skip-next after a direct selection of B has selected C
C12_Witness ==
    /\ last.op = "handleSkipNext"
    /\ last.queue = NULL
    /\ ~QueueActive
    /\ selectedId = "C"
    /\ shouldAutoPlay

\* C13: with no queue active and loop mode not One, an end-of-item event on the
\* selection at library index i selects index i+1 when it exists; at the last index
\* it selects index 0 with loop mode All and, with loop mode None, leaves the
\* selection where it is with the transport not playing.
C13_LibraryEnded ==
    [][(last'.op = "handleEnded" /\ ~QueueActive /\ loopMode # "one" /\ selected # NoItem) =>
          /\ currentPlaylist' = NoPlaylist
          /\ libraryIndex < Len(orderedItems) - 1 =>
                selectedId' = orderedItems[libraryIndex + 2].id
          /\ (libraryIndex = Len(orderedItems) - 1 /\ loopMode = "all") =>
                selectedId' = orderedItems[1].id
          /\ (libraryIndex = Len(orderedItems) - 1 /\ loopMode = "none") =>
                /\ selectedId' = selectedId
                /\ ~isPlaying'
                /\ mediaPaused']_vars

\* C13 witness: the last library item ended under loop mode All and the first one
\* is selected, about to start
C13_Witness ==
    /\ last.op = "handleEnded"
    /\ last.queue = NULL
    /\ ~QueueActive
    /\ loopMode = "all"
    /\ selectedId = "A"
    /\ shouldAutoPlay

\* C14: skip-next or an end-of-item advance (loop mode not One) from position i of
\* the active playlist, entry i+1 dangling and entry i+2 resolving, ends at position
\* i+2 with that entry's item selected (stated for sessions whose catalog has
\* loaded and whose selection agrees with the queue position).
C14_DanglingSkipped ==
    [][(/\ items = Catalog
        /\ last'.op \in {"handleSkipNext", "handleEnded"}
        /\ loopMode # "one"
        /\ QueueActive
        /\ C1_QueuePositionAgreement
        /\ playlistIndex + 2 < QueueLen
        /\ ~InCatalog(EntryAt(currentPlaylist, playlistIndex + 1).itemId)
        /\ InCatalog(EntryAt(currentPlaylist, playlistIndex + 2).itemId)) =>
          /\ playlistIndex' = playlistIndex + 2
          /\ selectedId' = EntryAt(currentPlaylist, playlistIndex + 2).itemId]_vars


\* C16: toggling the loop mode takes None to All, All to One and One to None (so
\* three toggles in a row restore the mode) and leaves the selected item, the
\* active queue, the queue position and the transport as they were.
C16_LoopToggleCycles ==
    [][last'.op = "cycleLoopMode" =>
          /\ loopMode = "none" => loopMode' = "all"
          /\ loopMode = "all" => loopMode' = "one"
          /\ loopMode = "one" => loopMode' = "none"
          /\ UNCHANGED << selectedId, currentPlaylist, playlistIndex, shouldAutoPlay,
                          mediaVars, playbackPosition, playbackDuration >>]_vars

\* C16 witness: a toggle has brought the mode back to None while a playlist plays
\* past its first entry
C16_Witness ==
    /\ last.op = "cycleLoopMode"
    /\ loopMode = "none"
    /\ QueueActive
    /\ playlistIndex > 0
    /\ isPlaying

\* C17: after a seek request the transport position lies in [0, duration]: a
\* request below 0 yields 0, one above the duration yields the duration, one in
\* range yields itself; and while no item is selected no seek can be requested
\* (the duration is 0 and the slider is disabled), so none changes anything.
C17_SeekClamps ==
    [][/\ last'.op = "handleSeek" =>
             /\ 0 <= playbackPosition' /\ playbackPosition' <= playbackDuration'
             /\ last'.arg < 0 => playbackPosition' = 0
             /\ last'.arg > playbackDuration => playbackPosition' = playbackDuration
             /\ (0 <= last'.arg /\ last'.arg <= playbackDuration) =>
                   playbackPosition' = last'.arg
             /\ mediaCurrentTime' = playbackPosition'
             /\ selected # NoItem
       /\ (Idle /\ selected = NoItem) => playbackDuration = 0]_vars

\* C17 witness: a seek past the end of a playing item has put the position at the
\* duration
C17_Witness ==
    /\ last.op = "handleSeek"
    /\ last.arg > MaxTime
    /\ playbackDuration = MaxTime
    /\ playbackPosition = playbackDuration
    /\ isPlaying


\* C18: when the sync effect applies a change of the selected item to a different
\* one (made by direct selection, play-playlist, skip or auto-advance), it leaves
\* the transport position and the duration at 0, and its second run (the autoplay
\* flag being cleared) keeps them, so both are 0 before any event of the new
\* source is handled.
C18_SourceChangeResets ==
    [][last'.op = "mediaSyncEffect" =>
          /\ (last.op # "mediaSyncEffect" /\ last.sel # selectedId) =>
                (playbackPosition' = 0 /\ playbackDuration' = 0)
          /\ last.op = "mediaSyncEffect" =>
                UNCHANGED << playbackPosition, playbackDuration >>]_vars

\* C18 witness: the effect has applied a move inside a playlist to an entry past
\* the first: the new source is loaded and started, its metadata not yet known
C18_Witness ==
    /\ last.op = "mediaSyncEffect"
    /\ QueueActive
    /\ playlistIndex > 0
    /\ selected # NoItem
    /\ mediaSrc = selectedMediaUrl
    /\ mediaSrc # NoUrl
    /\ ~mediaReady
    /\ playbackPosition = 0
    /\ playbackDuration = 0
    /\ isPlaying

C20_ShareRoundTrip ==
    [][/\ (last'.op = "handleSharePlaylistResumes" /\ pending.kind = "unshare"
             /\ pending.ok) =>
             \E i \in 1..Len(playlists') :
                 /\ playlists'[i].id = pending.playlist.id
                 /\ ~playlists'[i].shared
                 /\ playlists'[i].shareId = assignedShareId[pending.playlist.id]
       /\ (last'.op = "handleSharePlaylist" /\ pending'.kind = "share"
             /\ assignedShareId[pending'.playlist.id] # NoShareId
             /\ \A i \in 1..Len(inMemoryStorage) :
                    inMemoryStorage[i].id # pending'.playlist.id) =>
             pending'.playlist.shareId = assignedShareId[pending'.playlist.id]]_vars


\* C21: whenever no request is in flight, no playlist id is both in the private
\* list and in the shared store (the server's store or the fetched shared list).
InSharedStore(id) ==
    \/ \E j \in 1..Len(inMemoryStorage) : inMemoryStorage[j].id = id
    \/ \E j \in 1..Len(sharedPlaylists) : sharedPlaylists[j].id = id

C21_ExclusiveOwnership ==
    pending = NoRequest =>
        \A i \in 1..Len(playlists) : ~InSharedStore(playlists[i].id)

\* C22: when the remote call of a share, unshare, save or delete has failed, the
\* handler's continuation leaves the private list, the shared list and the
\* playback session as they were.
C22_FailureLeavesState ==
    [][(pending.stage = "refreshed" /\ ~pending.ok /\ pending' = NoRequest) =>
          /\ playlists' = playlists
          /\ sharedPlaylists' = sharedPlaylists
          /\ CurSess' = CurSess]_vars

\* C23: deleting the playlist that is the active queue leaves no active queue,
\* position 0 and a paused media element; deleting any other playlist leaves the
\* session and the media element as they were.
C23_DeleteActiveStops ==
    [][last'.op = "handleDeletePlaylist" =>
          IF currentPlaylist.id = last'.arg
          THEN /\ currentPlaylist' = NoPlaylist
               /\ playlistIndex' = 0
               /\ mediaPaused'
          ELSE /\ CurSess' = CurSess
               /\ CurMedia' = CurMedia]_vars

\* a playlist has been deleted while it was the active queue and was playing
C23_Witness ==
    /\ last.op = "handleDeletePlaylist"
    /\ last.queue = last.arg
    /\ currentPlaylist = NoPlaylist
    /\ mediaPaused
    /\ mediaSrc # NoUrl
    /\ mediaCurrentTime > 0
    /\ Len(playlists) = 1

\* C24: a play request for a playlist without entries, and an import of text
\* that is not JSON or has no name or no items array, change nothing: not the
\* session, the media element, the private list, the shared list, the server's
\* store, nor is any request sent.
RowsWithId(id) ==
    {playlists[i] : i \in {k \in 1..Len(playlists) : playlists[k].id = id}}
        \cup {sharedPlaylists[i] :
                 i \in {k \in 1..Len(sharedPlaylists) : sharedPlaylists[k].id = id}}

LacksNameOrItems(data) ==
    ~data.ok \/ data.name.type = "undefined" \/ data.items.type # "array"

C24_ValidationNeverMutates ==
    [][(\/ /\ last'.op = "handlePlayPlaylist"
           /\ \A q \in RowsWithId(last'.arg) : Len(q.items) = 0
        \/ /\ last'.op = "handleImportPlaylist"
           /\ LacksNameOrItems(JSONparse(importData)))
        => /\ CurSess' = CurSess
           /\ CurMedia' = CurMedia
           /\ playlists' = playlists
           /\ sharedPlaylists' = sharedPlaylists
           /\ inMemoryStorage' = inMemoryStorage
           /\ pending' = pending]_vars

\* an import of an object without a name has been refused while a shared
\* playlist is the active queue
C24_Witness ==
    /\ last.op = "handleImportPlaylist"
    /\ JSONparse(last.arg).ok
    /\ JSONparse(last.arg).name.type = "undefined"
    /\ Len(sharedPlaylists) > 0
    /\ currentPlaylist # NoPlaylist
    /\ pending = NoRequest

\* C25: import rejects every input with an element that is neither a string nor
\* an object carrying itemId and loop, so every playlist in the shared store has
\* only entries with a string itemId and a boolean loop.
C25_ImportValidatesShape ==
    \A j \in 1..Len(inMemoryStorage) :
        \A k \in 1..Len(inMemoryStorage[j].items) :
            /\ inMemoryStorage[j].items[k].itemId # UNDEFINED
            /\ inMemoryStorage[j].items[k].loop \in BOOLEAN

\* C26: an import of well-formed input that is sent builds a shared playlist with
\* a shareId and one entry per input element, in input order, a string s giving
\* {itemId: s, loop: false} and an object giving its own itemId and loop; input
\* whose ids are all in the catalog is always sent; and when the server accepts
\* it, the server's store holds exactly that playlist under its id while the
\* private list is unchanged and does not contain the id.
WellFormedElement(e) ==
    \/ e.type = "string"
    \/ e.type = "object" /\ e.itemId # UNDEFINED /\ e.loop \in {"true", "false"}

WellFormedInput(data) ==
    /\ data.ok
    /\ data.type = "object"
    /\ data.name.type = "string"
    /\ data.items.type = "array"
    /\ \A k \in 1..Len(data.items.elems) : WellFormedElement(data.items.elems[k])

NormalizedFrom(playlist, elems) ==
    /\ Len(playlist.items) = Len(elems)
    /\ \A k \in 1..Len(elems) :
          IF elems[k].type = "string"
          THEN playlist.items[k] = [itemId |-> elems[k].str, loop |-> FALSE]
          ELSE playlist.items[k] = [itemId |-> elems[k].itemId,
                                    loop |-> (elems[k].loop = "true")]

C26_ImportNormalizes ==
    [][/\ (last'.op = "handleImportPlaylist" /\ WellFormedInput(JSONparse(importData))) =>
             /\ pending'.kind = "import" =>
                    /\ pending'.playlist.shared
                    /\ pending'.playlist.shareId # NoShareId
                    /\ NormalizedFrom(pending'.playlist, JSONparse(importData).items.elems)
             /\ (/\ JSONparse(importData).name.str # ""
                 /\ \A k \in 1..Len(JSONparse(importData).items.elems) :
                        LET e == JSONparse(importData).items.elems[k]
                        IN  InCatalog(IF e.type = "string" THEN e.str ELSE e.itemId))
                   => pending'.kind = "import"
       /\ (pending.kind = "import" /\ pending.stage = "sent" /\ pending'.ok) =>
             /\ {j \in 1..Len(inMemoryStorage') :
                       inMemoryStorage'[j].id = pending.playlist.id} # {}
             /\ \A j \in 1..Len(inMemoryStorage') :
                    inMemoryStorage'[j].id = pending.playlist.id =>
                        inMemoryStorage'[j] = pending.playlist
             /\ playlists' = playlists
             /\ \A i \in 1..Len(playlists') : playlists'[i].id # pending.playlist.id]_vars

\* the server has stored an imported playlist that keeps an entry the loaded
\* catalog does not know, after one it does know
C26_Witness ==
    /\ last.op = "serverResponds"
    /\ pending.kind = "import"
    /\ pending.ok
    /\ items # <<>>
    /\ \E j \in 1..Len(inMemoryStorage) :
          /\ inMemoryStorage[j].shared
          /\ Len(inMemoryStorage[j].items) = 2
          /\ InCatalog(inMemoryStorage[j].items[1].itemId)
          /\ inMemoryStorage[j].items[2].itemId = DanglingId

\* C27: adding an item to the playlist open in the editor leaves a playlist that
\* already has the item as it is, gives a playlist without it exactly one entry
\* for it, and adding the same item once more changes nothing.
CountOf(playlist, itemId) ==
    Cardinality({k \in 1..Len(playlist.items) : playlist.items[k].itemId = itemId})

AddedOnce(before, after, playlistId, itemId) ==
    /\ (before.id = playlistId /\ CountOf(before, itemId) > 0) => after = before
    /\ before.id # playlistId => after = before
    /\ CountOf(after, itemId) =
          IF before.id = playlistId /\ CountOf(before, itemId) = 0
          THEN 1 ELSE CountOf(before, itemId)
    /\ addItemTo(after, playlistId, itemId) = after

C27_AddItemIdempotent ==
    [][last'.op = "handleAddItemToPlaylist" =>
          /\ Len(playlists') = Len(playlists)
          /\ \A i \in 1..Len(playlists) :
                AddedOnce(playlists[i], playlists'[i], last'.queue, last'.arg)
          /\ AddedOnce(editingPlaylist, editingPlaylist', last'.queue, last'.arg)]_vars

\* item A has been added to p1, which had it already next to other entries
C27_Witness ==
    /\ last.op = "handleAddItemToPlaylist"
    /\ last.arg = "A"
    /\ last.queue = "p1"
    /\ editingPlaylist.id = "p1"
    /\ CountOf(playlists[1], "A") = 1
    /\ Len(playlists[1].items) > 3

\* C28: a drop of the dragged row on another row moves that entry to the drop
\* row's index and keeps the other entries in their order (same length, same
\* entries), in the editor's copy and in the stored playlist; moving a row onto
\* its own index changes nothing.
WithoutIndex(seq, index) ==
    [k \in 1..(Len(seq) - 1) |-> IF k <= index THEN seq[k] ELSE seq[k + 1]]

SameEntries(a, b) ==
    /\ Len(a) = Len(b)
    /\ \A k \in 1..Len(a) :
          Cardinality({n \in 1..Len(a) : a[n] = a[k]})
              = Cardinality({n \in 1..Len(b) : b[n] = a[k]})

MovedAndShifted(before, after, from, to) ==
    /\ SameEntries(before, after)
    /\ after[to + 1] = before[from + 1]
    /\ WithoutIndex(after, to) = WithoutIndex(before, from)

C28_ReorderMovesAndShifts ==
    [][(last'.op = "onDrop" /\ draggedItemIndex # NoDrag) =>
          /\ draggedItemIndex # last'.index =>
                /\ MovedAndShifted(editingPlaylist.items, editingPlaylist'.items,
                                   draggedItemIndex, last'.index)
                /\ \A i \in 1..Len(playlists) :
                      IF playlists[i].id = editingPlaylist.id
                      THEN MovedAndShifted(playlists[i].items, playlists'[i].items,
                                           draggedItemIndex, last'.index)
                      ELSE playlists'[i] = playlists[i]
          /\ \A index \in 0..(Len(editingPlaylist.items) - 1) :
                moveItem(editingPlaylist.items, index, index) = editingPlaylist.items]_vars

\* the first row of p1 has been dropped on its last row, past two other entries
C28_Witness ==
    /\ last.op = "onDrop"
    /\ last.arg = "p1"
    /\ last.index = 3
    /\ Len(editingPlaylist.items) = 4
    /\ editingPlaylist.items[4].itemId = "A"
    /\ editingPlaylist.items[1].itemId = DanglingId
    /\ playlists[1].items = editingPlaylist.items

\* C29: the list the server returns has the playlists in the order of their
\* latest successful POST, the most recent first.
C29_ListMostRecentFirst ==
    \A i, j \in 1..Len(GETsharedPlaylists) :
        i < j => lastWrite[GETsharedPlaylists[i].id].at
                     > lastWrite[GETsharedPlaylists[j].id].at

\* C30: the store has at most one playlist per id; an id whose last successful
\* request was a POST is listed with exactly the playlist of that request
\* (every property of it, the cover marker included), and
\* an id whose last successful request was a DELETE, or that was never
\* posted, is not listed.
StoredUnder(id) ==
    {i \in 1..Len(GETsharedPlaylists) : GETsharedPlaylists[i].id = id}

C30_KeyedLastWriterWins ==
    \A id \in PlaylistIds :
        /\ Cardinality(StoredUnder(id)) <= 1
        /\ IF lastWrite[id].playlist = NoPlaylist
           THEN StoredUnder(id) = {}
           ELSE /\ StoredUnder(id) # {}
                /\ \A i \in StoredUnder(id) : GETsharedPlaylists[i] = lastWrite[id].playlist

\* C31: a version check raises the update notification only when a version
\* is stored and differs from the fetched one; a check with no stored version
\* stores the fetched version and raises nothing; and once the user has
\* answered (Later or Refresh) the notification for a version, no later check
\* that fetches that version raises the notification.
CheckCompletes == last'.op = "checkForUpdatesResumes" /\ last'.arg # FetchFailed
Raises == updateAvailable' # NoVersion /\ updateAvailable' # updateAvailable
Answered(version) == \E i \in 1..Len(dismissed) : dismissed[i] = version

RaisedOnlyOnDifference ==
    /\ Raises => /\ CheckCompletes
                 /\ storedVersion # NoVersion
                 /\ storedVersion # last'.arg
                 /\ updateAvailable' = last'.arg
    /\ CheckCompletes /\ storedVersion = NoVersion
           => /\ storedVersion' = last'.arg
              /\ updateAvailable' = NoVersion

C31_UpdateNotification ==
    [][/\ RaisedOnlyOnDifference
       /\ CheckCompletes /\ Answered(last'.arg) => ~Raises]_vars

\* C32: every skip-next and skip-previous either moves as a whole (the queue
\* is kept, the position is one of the queue's, the selected item is the
\* catalog item of the entry at that position, or a catalog item when no
\* queue is active, and the pending-autoplay flag is set) or changes none of
\* the active queue, the position, the selected item and the flag.
SkipMovesWhole ==
    /\ currentPlaylist' = currentPlaylist
    /\ shouldAutoPlay'
    /\ InCatalog(selectedId')
    /\ IF currentPlaylist = NoPlaylist
       THEN playlistIndex' = 0
       ELSE /\ playlistIndex' \in 0..(Len(currentPlaylist.items) - 1)
            /\ selectedId' = EntryAt(currentPlaylist, playlistIndex').itemId

C32_SkipAllOrNothing ==
    [][last'.op \in {"handleSkipNext", "handleSkipPrevious"}
           => SkipMovesWhole \/ UNCHANGED sessVars]_vars

\* skip-next has been refused in front of an entry that is not in the catalog
C32_Witness ==
    /\ last.op = "handleSkipNext"
    /\ currentPlaylist # NoPlaylist
    /\ last.queue = currentPlaylist.id
    /\ last.index = playlistIndex
    /\ last.sel = selectedId
    /\ selectedId # NULL
    /\ playlistIndex < Len(currentPlaylist.items) - 1
    /\ ~InCatalog(EntryAt(currentPlaylist, playlistIndex + 1).itemId)

\* C33: every playlist the server holds is marked shared; a playlist posted
\* with a shareId is stored, and returned, with that shareId, and one posted
\* without a shareId is given one.
C33_PostKeepsShareId ==
    \A i \in 1..Len(GETsharedPlaylists) :
        LET stored == GETsharedPlaylists[i]
            write == lastWrite[stored.id]
        IN  /\ stored.shared
            /\ stored.shareId # NoShareId
            /\ write.playlist.shareId = stored.shareId
            /\ write.request.shareId # NoShareId
                   => stored.shareId = write.request.shareId

\* a playlist that is in the table under its shareId has been posted again
\* with that shareId and other entries
C33_Witness ==
    /\ supabase
    /\ \E r \in shared_playlists :
          /\ r.created_at < r.updated_at
          /\ r.share_id = sharedEarlier(r.id)
          /\ lastWrite[r.id].at = r.updated_at
          /\ lastWrite[r.id].request.shareId = r.share_id
          /\ r.items # <<>>

C35_NoLostUpdate ==
    [][last'.op = "handleSharePlaylistResumes"
           => SelectSeq(playlists', LAMBDA q : q.id # last'.arg)
                  = SelectSeq(playlists, LAMBDA q : q.id # last'.arg)]_vars

\* C36: the Morning Breathwork effect issues its POST only when the server's
\* store holds no playlist with that id.
C36_EnsureNeverOverwrites ==
    [][pending' # pending /\ pending'.kind = "ensure" /\ pending'.stage = "sent"
           => \A j \in 1..Len(inMemoryStorage) :
                  inMemoryStorage[j].id # MORNING_PLAYLIST_ID]_vars

\* C37: a playlist started with loop mode None and no loop flags finishes:
\* whenever a queue is active, the session later has no active queue.
C37_PlaylistFinishes == (currentPlaylist # NoPlaylist) ~> (currentPlaylist = NoPlaylist)

\* C38: a playlist saved to the shared store and then listed back has the id,
\* the name, the ordered entries (itemId and loop of each), the shareId and the
\* cover marker of the playlist that was saved, with the database and with the
\* in-memory store.
C38_UpsertListRoundTrip ==
    \A id \in PlaylistIds :
        lastWrite[id].playlist # NoPlaylist =>
            \A i \in StoredUnder(id) :
                \A f \in {"id", "name", "items", "shareId", "coverEmoji"} :
                    /\ f \in DOMAIN GETsharedPlaylists[i]
                    /\ GETsharedPlaylists[i][f] = lastWrite[id].playlist[f]

\* C39: once a playlist is playing, adding, removing, reordering or toggling
\* the loop flag of its entries, and saving, sharing or unsharing it, leave the
\* queue's entries, the queue position and the selected item as they are: only
\* play-playlist changes them.
C39_QueueIsSnapshot ==
    [][(currentPlaylist # NoPlaylist /\ last'.op # "handlePlayPlaylist")
          => UNCHANGED << currentPlaylist, playlistIndex, selectedId >>]_vars

\* the playing playlist was edited and then shared: the shared list has other
\* entries than the queue
C39_Witness ==
    /\ currentPlaylist # NoPlaylist
    /\ selectedId # NULL
    /\ last.op = "handleSharePlaylistResumes"
    /\ \E i \in 1..Len(sharedPlaylists) :
          /\ sharedPlaylists[i].id = currentPlaylist.id
          /\ Len(sharedPlaylists[i].items) = Len(currentPlaylist.items)
          /\ sharedPlaylists[i].items # currentPlaylist.items
====
